---------------------------- MODULE Spec2Model ----------------------------
(***************************************************************************)
(* Model of the duplex (socket.io) session broker of                       *)
(* mcp-server/dist/server.js: the activeSessions registry, the broadcast   *)
(* rooms, the create-session / join-session / screen-data / request-ocr /  *)
(* disconnect handlers and the suspended OCR calls.                        *)
(*                                                                         *)
(* Every handler runs to completion (or to its first await) as one action. *)
(* `effects` lists, in program order, what the handler that ran last did:  *)
(* the events it emitted with the connections that receive them, the       *)
(* registry writes and the recognition calls it started.                   *)
(***************************************************************************)
EXTENDS Integers, Sequences, FiniteSets, Bags, TLC

\* ---------------------------------------------------------------- bounds
NumConns == 2      \* socket ids handed out by socket.io; an id is never reused
MaxSessions == 2   \* session ids uuidv4 hands out during one run
MaxViewers == 2    \* entries in all viewers arrays of the registry together
MaxPending == 1    \* recognition calls in flight at one time
MaxLen == 3        \* characters of an image payload or of a recognized text
MaxCalls == 2      \* tool invocations during one run

Conns == 1..NumConns
NoConn == 0
\* a session id the client sends that names a property every object inherits
\* ("constructor", "__proto__", "toString", ...): never a key of activeSessions
ProtoKey == 0
NoSid == -1
SessionIds == 1..MaxSessions
SidInputs == SessionIds \cup {ProtoKey}

\* image payloads, one of each shape the handlers tell apart: the empty
\* string, raw base64, a data URL, a data URL with nothing after its comma
Payloads == { << >>, << "A" >>, << "d", ",", "A" >>, << "d", "," >> }

\* chunk of a screen-data message: chunk missing, chunk.data missing or not a
\* string, chunk.data a string
Chunks == {[t |-> "nochunk", s |-> << >>], [t |-> "nodata", s |-> << >>]}
          \cup {[t |-> "str", s |-> s] : s \in Payloads}
\* imageData of a request-ocr message: a string, or not a string
ImageInputs == {[t |-> "nodata", s |-> << >>]} \cup {[t |-> "str", s |-> s] : s \in Payloads}
NoChunk == [t |-> "none", s |-> <<>>]

\* text the recognition engine returns
Texts == {"", "HELLO"}

VARIABLES
    fresh,           \* socket ids not handed out yet
    connected,       \* sockets currently connected
    activeSessions,  \* the registry: session id -> [host, viewers]
    rooms,           \* socket.io rooms named by a session id -> member sockets
    creator,         \* history: live session id -> the socket whose create-session made it
    ever,            \* history: the session ids uuidv4 has handed out
    ended,           \* history: the session ids taken out of the registry
    before,          \* history: the registry as the last handler found it
    pending,         \* bag of the recognition calls in flight
    effects,         \* what the last handler did, in program order
    lastOp,          \* the handler that ran last and its input
    crashed,         \* an exception left a handler uncaught: the process is gone
    unmatched,       \* history: per session and viewer, the viewer-joined events its
                     \* host received less the viewer-left events
    metrics,         \* tool server: the counters of the MetricsCollector
    metricsWas,      \* history: the counters as the last tool handler step found them
    inflight,        \* tool server: extract_text calls awaiting Tesseract.recognize
    toolOp,          \* the tool handler step that ran last and its input
    reply,           \* the envelope the last tool handler step returned
    payload,         \* an image payload handed to an OCR entry point
    normalized,      \* what the entry point made of the payload
    config,          \* tool server: the environment configuration it started with
    proc,            \* tool server: the GracefulShutdown object and the process
    http,            \* tool server: the HTTP request being served
    call,            \* tool server: the last tools/call request and what became of it
    mcp              \* tool server: the transport the shared McpServer holds and the
                     \* HTTP requests that overlap

brokerVars == <<fresh, connected, activeSessions, rooms, creator, ever, ended, before, pending, effects, lastOp, crashed, unmatched>>
toolVars == <<metrics, metricsWas, inflight, toolOp, reply, payload, normalized>>
hostVars == <<config, proc, http, call, mcp>>
vars == <<brokerVars, toolVars, hostVars>>

\* ------------------------------------------------------------- effects
Effect(op, ev, to, sid, viewer, msg, chunk, text) ==
    [op |-> op, ev |-> ev, to |-> to, sid |-> sid, viewer |-> viewer,
     msg |-> msg, chunk |-> chunk, text |-> text]

\* socket.emit(ev, ...): to the socket itself, dropped when it is no longer connected
EmitSelf(conn, c, ev, sid, msg, text) ==
    Effect("emit", ev, {c} \cap conn, sid, NoConn, msg, NoChunk, text)

\* io.to(room).emit(ev, ...): to every socket in the room
EmitRoom(members, ev, sid, viewer, msg) ==
    Effect("emit", ev, members, sid, viewer, msg, NoChunk, "")

\* socket.to(room).emit('screen-data', {chunk}): to the room except the sender
EmitOthers(members, c, sid, chunk) ==
    Effect("emit", "screen-data", members \ {c}, sid, NoConn, "", chunk, "")

\* the keys of the object the server sends with an event
EventFields(ev) ==
    CASE ev = "error" -> {"message"}
      [] ev = "ocr-result" -> {"sessionId", "timestamp", "text"}
      [] ev = "session-created" -> {"sessionId"}
      [] ev = "session-joined" -> {"sessionId"}
      [] ev = "session-ended" -> {"message"}
      [] ev = "viewer-joined" -> {"viewerId"}
      [] ev = "viewer-left" -> {"viewerId"}
      [] ev = "screen-data" -> {"chunk"}
      [] OTHER -> {}

RegistryWrite(op, sid) ==
    Effect(op, "", {}, sid, NoConn, "", NoChunk, "")

RecognizeCall(img) ==
    Effect("recognize", "", {}, NoSid, NoConn, "", [t |-> "str", s |-> img], "")

\* no viewer-joined event delivered yet
NoneUnmatched == [s \in SessionIds |-> [v \in Conns |-> 0]]

\* the count after the emits of one handler: a viewer-joined that reaches the
\* host adds one for its session and viewer, a viewer-left takes one away
RECURSIVE Tally(_, _)
Tally(count, eff) ==
    IF eff = << >> THEN count
    ELSE LET e == Head(eff)
             told == e.op = "emit" /\ e.to # {} /\ e.ev \in {"viewer-joined", "viewer-left"}
         IN Tally(IF told
                  THEN [count EXCEPT ![e.sid][e.viewer] =
                            IF e.ev = "viewer-joined" THEN @ + 1 ELSE @ - 1]
                  ELSE count,
                  Tail(eff))

Op(name, c, sid) ==
    [name |-> name, conn |-> c, sid |-> sid, rerun |-> FALSE, kind |-> "", outcome |-> ""]

\* ------------------------------------------------------------ registry
\* activeSessions[sessionId] on the plain object: an own entry, a value
\* inherited from Object.prototype (truthy, with no host and no viewers),
\* or undefined
Lookup(reg, sid) ==
    IF sid \in DOMAIN reg THEN "session"
    ELSE IF sid = ProtoKey THEN "inherited"
    ELSE "undefined"

Remove(reg, sid) == [s \in DOMAIN reg \ {sid} |-> reg[s]]

Includes(seq, x) == \E i \in 1..Len(seq) : seq[i] = x

\* mutant: only the first occurrence is taken out
Filter_FirstOnly(seq, x) ==
    IF \E i \in 1..Len(seq) : seq[i] = x
    THEN LET i == CHOOSE k \in 1..Len(seq) : seq[k] = x /\ \A j \in 1..(k - 1) : seq[j] # x
         IN SubSeq(seq, 1, i - 1) \o SubSeq(seq, i + 1, Len(seq))
    ELSE seq

\* session.viewers.filter(id => id !== socket.id)
Filter(seq, x) == SelectSeq(seq, LAMBDA y : y # x)

\* ---------------------------------------------------------- tool server
\* result.data.confidence / 100: the engine reports a percentage
Percent == 100
EngineConfidences == 0..Percent

StringsOver(alphabet, n) == UNION {[1..k -> alphabet] : k \in 0..n}

\* image payloads of a tool call: "A" a base64 character, "!" a character
\* that is not one, "," the separator of a data URL
Images == StringsOver({"A", "!", ","}, MaxLen)

\* text.trim() takes white space from both ends
WhiteSpace == {" "}
EngineTexts == StringsOver({"H"} \cup WhiteSpace, MaxLen)

\* an optional argument of a tool call: left out, or supplied with a value
Unset == [set |-> FALSE, v |-> 0]
Supplied(v) == [set |-> TRUE, v |-> v]
Optional(values) == {Unset} \cup {Supplied(v) : v \in values}

\* the arguments the input schema of log_activity lets through
LogArgs ==
    [description : {"test"},
     confidence : Optional({0, 1}),
     screen_text_length : Optional({0, MaxLen}),
     processing_time : Optional({0, 1})]

NoEntry == [description |-> "", confidence |-> 0, screen_text_length |-> 0, processing_time |-> 0]
NoConfidence == [num |-> 0, den |-> 1]

\* the JSON a tool handler returns, with the fields that depend on its input
Envelope(tool, success, error, text, confidence, entry) ==
    [tool |-> tool, success |-> success, error |-> error, text |-> text,
     confidence |-> confidence, entry |-> entry]

\* the catch of a tool handler: {success: false, error, timestamp}
Failure(tool, error) == Envelope(tool, FALSE, error, << >>, NoConfidence, NoEntry)

NoReply == Envelope("none", FALSE, "", << >>, NoConfidence, NoEntry)

\* a step of a tool handler: engine, whether the step called
\* Tesseract.recognize; text, confidence, ok: what the engine gave back
ToolOp(name) ==
    [name |-> name, imageData |-> << >>, args |-> [NoEntry EXCEPT !.confidence = Unset,
                                                              !.screen_text_length = Unset,
                                                              !.processing_time = Unset],
     engine |-> FALSE, text |-> << >>, confidence |-> 0, ok |-> TRUE]

NotNormalized == [at |-> "none", out |-> [t |-> "none", s |-> << >>]]

ToolInit ==
    /\ metrics = [requests |-> 0, errors |-> 0, screenCaptures |-> 0,
                  ocrRequests |-> 0, activityLogs |-> 0]
    /\ metricsWas = metrics
    /\ inflight = 0
    /\ toolOp = ToolOp("init")
    /\ reply = NoReply
    /\ payload = << >>
    /\ normalized = NotNormalized

\* the process is up
Running == -1

\* the GracefulShutdown object as constructed, with what the process has
\* done about shutting down: timers and closeCalls count the setTimeout and
\* httpServer.close calls, signals the shutdown() calls, cause is the signal
\* of the first one, listening whether httpServer.listen bound the port,
\* exit the status passed to process.exit, by the place that called it
ProcInit ==
    [isShuttingDown |-> FALSE, timer |-> "none", timers |-> 0, closeCalls |-> 0,
     closing |-> FALSE, closeErr |-> FALSE, signals |-> 0, cause |-> "",
     listening |-> FALSE, faulted |-> FALSE, exit |-> Running, by |-> ""]

\* no request on the HTTP binding
\* the counters of a MetricsCollector as constructed
InitialMetrics ==
    [requests |-> 0, errors |-> 0, screenCaptures |-> 0, ocrRequests |-> 0, activityLogs |-> 0]

\* mutant: the envelope is left out of the body
Body_Bare(status, envelope) == [status |-> status, envelope |-> NoReply]

\* the body of an HTTP response: its status and, when it carries the return
\* value of a tool handler, that envelope
Body(status, envelope) == [status |-> status, envelope |-> envelope]
NoBody == Body(0, NoReply)

\* no request on the HTTP binding; at is the counters as the request found
\* them, snapshot the metrics a GET route put in its response
NoRequest ==
    [handler |-> "none", path |-> "", origin |-> "", tool |-> "", sent |-> << >>,
     body |-> NoBody, snapshot |-> << >>, at |-> InitialMetrics,
     handlerRan |-> FALSE, timedOut |-> FALSE, fault |-> ""]

\* no tools/call request yet
NoCall == [tool |-> "", raw |-> << >>, dispatched |-> FALSE, at |-> InitialMetrics]

\* the shared McpServer connected to no transport, no request overlapping
NoMcp == [transport |-> 0, reqs |-> << >>]

\* the defaults of the configuration (lines 30-47)
DefaultConfig ==
    [transport |-> "stdio", enableDnsRebinding |-> TRUE, build |-> "src",
     enableMetrics |-> TRUE, enableHealthCheck |-> TRUE]

HostInit ==
    /\ config = DefaultConfig
    /\ proc = ProcInit
    /\ http = NoRequest
    /\ call = NoCall
    /\ mcp = NoMcp

BrokerInit ==
    /\ fresh = Conns
    /\ connected = {}
    /\ activeSessions = << >>
    /\ rooms = [s \in SidInputs |-> {}]
    /\ creator = << >>
    /\ ever = {}
    /\ ended = {}
    /\ before = << >>
    /\ pending = EmptyBag
    /\ effects = << >>
    /\ lastOp = Op("init", NoConn, NoSid)
    /\ crashed = FALSE
    /\ unmatched = NoneUnmatched

Init == BrokerInit /\ ToolInit /\ HostInit

\* io.on('connection'): a new socket with an id of its own, the next one
\* socket.io hands out
Connect(c) ==
    /\ ~crashed
    /\ c \in fresh
    /\ \A d \in fresh : c <= d
    /\ fresh' = fresh \ {c}
    /\ connected' = connected \cup {c}
    /\ effects' = << >>
    /\ before' = activeSessions
    /\ lastOp' = Op("connection", c, NoSid)
    /\ UNCHANGED <<activeSessions, rooms, creator, ever, ended, pending, crashed, unmatched, toolVars, hostVars>>

\* uuidv4(): an id no session of this run has had
uuidv4(used) ==
    CHOOSE s \in SessionIds \ used : \A t \in SessionIds \ used : s <= t

\* mutant: the registry is replaced by one holding the new session alone
CreateEntry_Reset(reg, sid, c) ==
    [s \in {sid} |-> [host |-> c, viewers |-> << >>]]

\* activeSessions[sessionId] = {id, host: socket.id, viewers: [], startTime}
CreateEntry(reg, sid, c) ==
    [s \in DOMAIN reg \cup {sid} |->
        IF s = sid THEN [host |-> c, viewers |-> << >>] ELSE reg[s]]

\* socket.on('create-session')
CreateSession(c) ==
    /\ ~crashed
    /\ c \in connected
    /\ SessionIds \ ever # {}
    /\ LET sid == uuidv4(ever)
       IN /\ activeSessions' = CreateEntry(activeSessions, sid, c)
          /\ creator' = [s \in DOMAIN creator \cup {sid} |->
                            IF s = sid THEN c ELSE creator[s]]
          /\ ever' = ever \cup {sid}
          /\ rooms' = [rooms EXCEPT ![sid] = @ \cup {c}]
          /\ effects' = << RegistryWrite("insert", sid),
                           EmitSelf(connected, c, "session-created", sid, "", "") >>
          /\ lastOp' = Op("create-session", c, sid)
    /\ before' = activeSessions
    /\ UNCHANGED <<fresh, connected, ended, pending, crashed, unmatched, toolVars, hostVars>>

\* entries in all viewers arrays together
RECURSIVE SumLen(_, _)
SumLen(reg, todo) ==
    IF todo = {} THEN 0
    ELSE LET s == CHOOSE x \in todo : TRUE
         IN Len(reg[s].viewers) + SumLen(reg, todo \ {s})
ViewerEntries(reg) == SumLen(reg, DOMAIN reg)

\* mutant: the joining socket also takes the session over
PushViewer_TakesHost(session, c) ==
    [host |-> c, viewers |-> Append(session.viewers, c)]

\* session.viewers.push(socket.id)
PushViewer(session, c) == [session EXCEPT !.viewers = Append(@, c)]

\* the room named by a socket's own id: the socket, while it is connected
OwnRoom(conn, c) == {c} \cap conn

\* mutant: viewer-joined goes to every connected socket (io.emit)
JoinEmits_ToAll(conn, c, sid, host) ==
    << EmitSelf(conn, c, "session-joined", sid, "", ""),
       EmitRoom(conn, "viewer-joined", sid, c, "") >>

\* what join-session emits once the session is found (lines 46-47)
JoinEmits(conn, c, sid, host) ==
    << EmitSelf(conn, c, "session-joined", sid, "", ""),
       EmitRoom(OwnRoom(conn, host), "viewer-joined", sid, c, "") >>

\* socket.on('join-session')
JoinSession(c, sid) ==
    /\ ~crashed
    /\ c \in connected
    /\ before' = activeSessions
    /\ lastOp' = Op("join-session", c, sid)
    /\ UNCHANGED <<fresh, connected, creator, ever, ended, pending, toolVars, hostVars>>
    /\ CASE Lookup(activeSessions, sid) = "undefined" ->
              /\ effects' = << EmitSelf(connected, c, "error", NoSid, "Session not found", "") >>
              /\ UNCHANGED <<activeSessions, rooms, crashed>>
         [] Lookup(activeSessions, sid) = "inherited" ->
              \* session.viewers is undefined: push throws a TypeError no one catches
              /\ crashed' = TRUE
              /\ effects' = << >>
              /\ UNCHANGED <<activeSessions, rooms>>
         [] Lookup(activeSessions, sid) = "session" ->
              /\ ViewerEntries(activeSessions) < MaxViewers
              /\ activeSessions' = [activeSessions EXCEPT ![sid] = PushViewer(@, c)]
              /\ rooms' = [rooms EXCEPT ![sid] = @ \cup {c}]
              /\ effects' = << RegistryWrite("push", sid) >>
                            \o JoinEmits(connected, c, sid, activeSessions[sid].host)
              /\ UNCHANGED crashed
    /\ unmatched' = Tally(unmatched, effects')

\* mutant: a hosted session is deleted without the session-ended emit
DisconnectStep_NoNotify(st, sid, c, conn, rms) ==
    LET session == st.reg[sid]
    IN IF session.host = c
       THEN [reg |-> Remove(st.reg, sid),
             eff |-> st.eff \o << RegistryWrite("delete", sid) >>]
       ELSE IF Includes(session.viewers, c)
       THEN [reg |-> [st.reg EXCEPT ![sid].viewers = Filter(@, c)],
             eff |-> st.eff \o << RegistryWrite("filter", sid),
                                  EmitRoom(OwnRoom(conn, session.host), "viewer-left",
                                           sid, c, "") >>]
       ELSE st

\* mutant: the entry is deleted first and session-ended emitted afterwards
DisconnectStep_RemoveFirst(st, sid, c, conn, rms) ==
    LET session == st.reg[sid]
    IN IF session.host = c
       THEN [reg |-> Remove(st.reg, sid),
             eff |-> st.eff \o << RegistryWrite("delete", sid),
                                  EmitRoom(rms[sid], "session-ended", sid, NoConn,
                                           "Host has disconnected") >>]
       ELSE IF Includes(session.viewers, c)
       THEN [reg |-> [st.reg EXCEPT ![sid].viewers = Filter(@, c)],
             eff |-> st.eff \o << RegistryWrite("filter", sid),
                                  EmitRoom(OwnRoom(conn, session.host), "viewer-left",
                                           sid, c, "") >>]
       ELSE st

\* mutant: session-ended is emitted but the entry stays in the registry
DisconnectStep_KeepSession(st, sid, c, conn, rms) ==
    LET session == st.reg[sid]
    IN IF session.host = c
       THEN [reg |-> st.reg,
             eff |-> st.eff \o << EmitRoom(rms[sid], "session-ended", sid, NoConn,
                                           "Host has disconnected") >>]
       ELSE IF Includes(session.viewers, c)
       THEN [reg |-> [st.reg EXCEPT ![sid].viewers = Filter(@, c)],
             eff |-> st.eff \o << RegistryWrite("filter", sid),
                                  EmitRoom(OwnRoom(conn, session.host), "viewer-left",
                                           sid, c, "") >>]
       ELSE st

\* mutant: a viewer that leaves takes the session with it
DisconnectStep_EndsViewed(st, sid, c, conn, rms) ==
    LET session == st.reg[sid]
    IN IF session.host = c \/ Includes(session.viewers, c)
       THEN [reg |-> Remove(st.reg, sid),
             eff |-> st.eff \o << EmitRoom(rms[sid], "session-ended", sid, NoConn,
                                           "Host has disconnected"),
                                  RegistryWrite("delete", sid) >>]
       ELSE st

\* one iteration of the for-in loop of the disconnect handler (lines 128-141);
\* st = [reg, eff], c the socket that went away, conn and rms the connected
\* sockets and the rooms once socket.io has taken c out of them
DisconnectStep(st, sid, c, conn, rms) ==
    LET session == st.reg[sid]
    IN IF session.host = c
       THEN [reg |-> Remove(st.reg, sid),
             eff |-> st.eff \o << EmitRoom(rms[sid], "session-ended", sid, NoConn,
                                           "Host has disconnected"),
                                  RegistryWrite("delete", sid) >>]
       ELSE IF Includes(session.viewers, c)
       THEN [reg |-> [st.reg EXCEPT ![sid].viewers = Filter(@, c)],
             eff |-> st.eff \o << RegistryWrite("filter", sid),
                                  EmitRoom(OwnRoom(conn, session.host), "viewer-left",
                                           sid, c, "") >>]
       ELSE st

\* mutant: the loop stops after the first key
DisconnectLoop_FirstOnly(st, todo, c, conn, rms) ==
    IF todo = {} THEN st
    ELSE DisconnectStep(st, CHOOSE s \in todo : \A t \in todo : s <= t, c, conn, rms)

\* for (const sessionId in activeSessions): the keys in insertion order
RECURSIVE DisconnectLoop(_, _, _, _, _)
DisconnectLoop(st, todo, c, conn, rms) ==
    IF todo = {} THEN st
    ELSE LET sid == CHOOSE s \in todo : \A t \in todo : s <= t
         IN DisconnectLoop(DisconnectStep(st, sid, c, conn, rms), todo \ {sid}, c, conn, rms)

LeaveAll(rms, c) == [r \in DOMAIN rms |-> rms[r] \ {c}]

\* the whole handler, from the state [reg, eff = <<>>]
DisconnectHandler(reg, c, conn, rms) ==
    DisconnectLoop([reg |-> reg, eff |-> << >>], DOMAIN reg, c, conn, rms)

\* socket.on('disconnect'): socket.io has already closed the socket and taken
\* it out of every room when the handler runs
Disconnect(c) ==
    /\ ~crashed
    /\ c \in connected
    /\ connected' = connected \ {c}
    /\ rooms' = LeaveAll(rooms, c)
    /\ LET out == DisconnectHandler(activeSessions, c, connected', rooms')
       IN /\ activeSessions' = out.reg
          /\ effects' = out.eff
          /\ creator' = [s \in DOMAIN out.reg |-> creator[s]]
          /\ ended' = ended \cup (DOMAIN activeSessions \ DOMAIN out.reg)
    /\ before' = activeSessions
    /\ lastOp' = Op("disconnect", c, NoSid)
    /\ unmatched' = Tally(unmatched, effects')
    /\ UNCHANGED <<fresh, ever, pending, crashed, toolVars, hostVars>>

\* the disconnect handler run once more for a socket that is already gone
DisconnectAgain(c) ==
    /\ ~crashed
    /\ c \in Conns \ (fresh \cup connected)
    /\ LET out == DisconnectHandler(activeSessions, c, connected, rooms)
       IN /\ activeSessions' = out.reg
          /\ effects' = out.eff
          /\ creator' = [s \in DOMAIN out.reg |-> creator[s]]
          /\ ended' = ended \cup (DOMAIN activeSessions \ DOMAIN out.reg)
    /\ before' = activeSessions
    /\ lastOp' = [Op("disconnect", c, NoSid) EXCEPT !.rerun = TRUE]
    /\ unmatched' = Tally(unmatched, effects')
    /\ UNCHANGED <<fresh, connected, rooms, ever, pending, crashed, toolVars, hostVars>>

\* String.prototype.split(','): the pieces between the commas
RECURSIVE Split(_)
Split(s) ==
    IF \A i \in 1..Len(s) : s[i] # ","
    THEN << s >>
    ELSE LET i == CHOOSE k \in 1..Len(s) : s[k] = "," /\ \A j \in 1..(k - 1) : s[j] # ","
         IN << SubSeq(s, 1, i - 1) >> \o Split(SubSeq(s, i + 1, Len(s)))

\* lines 63-64: parts.length > 1 ? parts[1] : parts[0]
ScreenImageData(s) ==
    LET parts == Split(s) IN IF Len(parts) > 1 THEN parts[2] ELSE parts[1]

\* mutant: the frame is forwarded to the room only after the OCR step
ScreenDataBody_OcrFirst(conn, members, c, sid, chunk) ==
    (IF chunk.t = "nochunk"
     THEN << EmitSelf(conn, c, "error", NoSid, "Failed to process OCR", "") >>
     ELSE IF chunk.t = "str" /\ chunk.s # << >>
     THEN IF ScreenImageData(chunk.s) # << >>
          THEN << RecognizeCall(ScreenImageData(chunk.s)) >>
          ELSE << EmitSelf(conn, c, "error", NoSid, "Invalid image data", "") >>
     ELSE << >>)
    \o << EmitOthers(members, c, sid, chunk) >>

\* the try block of the screen-data handler up to its await (lines 57-89):
\* the effects in program order
ScreenDataBody(conn, members, c, sid, chunk) ==
    << EmitOthers(members, c, sid, chunk) >> \o
    (IF chunk.t = "nochunk"
     THEN \* chunk.data throws a TypeError, caught at line 86
          << EmitSelf(conn, c, "error", NoSid, "Failed to process OCR", "") >>
     ELSE IF chunk.t = "str" /\ chunk.s # << >>
     THEN IF ScreenImageData(chunk.s) # << >>
          THEN << RecognizeCall(ScreenImageData(chunk.s)) >>
          ELSE << EmitSelf(conn, c, "error", NoSid, "Invalid image data", "") >>
     ELSE << >>)

\* the recognition call a handler started, as a record of the calls in
\* flight; bcast: the handler had emitted the frame to the room before the call
Started(eff, c, sid, kind) ==
    IF \E i \in 1..Len(eff) : eff[i].op = "recognize"
    THEN SetToBag({[conn |-> c, sid |-> sid, kind |-> kind,
                    bcast |-> \E i, j \in 1..Len(eff) :
                                 /\ i < j
                                 /\ eff[i].op = "emit" /\ eff[i].ev = "screen-data"
                                 /\ eff[j].op = "recognize"]})
    ELSE EmptyBag

\* mutant: a frame is taken up only when no recognition call is in flight
ScreenDataUpTo_Serial(cap, c, sid, chunk) ==
    /\ ~crashed
    /\ c \in connected
    /\ pending = EmptyBag
    /\ LET eff == IF Lookup(activeSessions, sid) = "undefined"
                  THEN << EmitSelf(connected, c, "error", NoSid, "Session not found", "") >>
                  ELSE ScreenDataBody(connected, rooms[sid], c, sid, chunk)
       IN /\ BagCardinality(pending (+) Started(eff, c, sid, "screen-data")) <= cap
          /\ pending' = pending (+) Started(eff, c, sid, "screen-data")
          /\ effects' = eff
    /\ before' = activeSessions
    /\ lastOp' = Op("screen-data", c, sid)
    /\ UNCHANGED <<fresh, connected, activeSessions, rooms, creator, ever, ended, crashed, unmatched, toolVars, hostVars>>

\* socket.on('screen-data'), up to the await of Tesseract.recognize, with at
\* most cap recognition calls in flight
ScreenDataUpTo(cap, c, sid, chunk) ==
    /\ ~crashed
    /\ c \in connected
    /\ LET eff == IF Lookup(activeSessions, sid) = "undefined"
                  THEN << EmitSelf(connected, c, "error", NoSid, "Session not found", "") >>
                  ELSE ScreenDataBody(connected, rooms[sid], c, sid, chunk)
       IN /\ BagCardinality(pending (+) Started(eff, c, sid, "screen-data")) <= cap
          /\ pending' = pending (+) Started(eff, c, sid, "screen-data")
          /\ effects' = eff
    /\ before' = activeSessions
    /\ lastOp' = Op("screen-data", c, sid)
    /\ UNCHANGED <<fresh, connected, activeSessions, rooms, creator, ever, ended, crashed, unmatched, toolVars, hostVars>>

ScreenData(c, sid, chunk) == ScreenDataUpTo(MaxPending, c, sid, chunk)

\* the try block of the request-ocr handler up to its await (lines 99-121)
RequestOcrBody(conn, c, sid, imageData) ==
    IF imageData.t # "str"
    THEN \* imageData.split throws a TypeError, caught at line 118
         << EmitSelf(conn, c, "error", NoSid, "Failed to perform OCR", "") >>
    ELSE LET parts == Split(imageData.s)
         IN IF Len(parts) > 1 /\ parts[2] # << >>
            THEN << RecognizeCall(parts[2]) >>
            ELSE << EmitSelf(conn, c, "error", NoSid, "Invalid image data", "") >>

\* mutant: a request the handler turns down takes the session out of the registry
RequestOcrUpTo_DropsSession(cap, c, sid, imageData) ==
    /\ ~crashed
    /\ c \in connected
    /\ LET eff == IF Lookup(activeSessions, sid) = "undefined"
                  THEN << EmitSelf(connected, c, "error", NoSid, "Session not found", "") >>
                  ELSE RequestOcrBody(connected, c, sid, imageData)
           reg == IF sid \in DOMAIN activeSessions /\ Started(eff, c, sid, "request-ocr") = EmptyBag
                  THEN Remove(activeSessions, sid)
                  ELSE activeSessions
       IN /\ BagCardinality(pending (+) Started(eff, c, sid, "request-ocr")) <= cap
          /\ pending' = pending (+) Started(eff, c, sid, "request-ocr")
          /\ effects' = eff
          /\ activeSessions' = reg
          /\ creator' = [s \in DOMAIN reg |-> creator[s]]
    /\ before' = activeSessions
    /\ lastOp' = Op("request-ocr", c, sid)
    /\ UNCHANGED <<fresh, connected, rooms, ever, ended, crashed, unmatched, toolVars, hostVars>>

\* socket.on('request-ocr'), up to the await of Tesseract.recognize, with at
\* most cap recognition calls in flight
RequestOcrUpTo(cap, c, sid, imageData) ==
    /\ ~crashed
    /\ c \in connected
    /\ LET eff == IF Lookup(activeSessions, sid) = "undefined"
                  THEN << EmitSelf(connected, c, "error", NoSid, "Session not found", "") >>
                  ELSE RequestOcrBody(connected, c, sid, imageData)
       IN /\ BagCardinality(pending (+) Started(eff, c, sid, "request-ocr")) <= cap
          /\ pending' = pending (+) Started(eff, c, sid, "request-ocr")
          /\ effects' = eff
    /\ before' = activeSessions
    /\ lastOp' = Op("request-ocr", c, sid)
    /\ UNCHANGED <<fresh, connected, activeSessions, rooms, creator, ever, ended, crashed, unmatched, toolVars, hostVars>>

RequestOcr(c, sid, imageData) == RequestOcrUpTo(MaxPending, c, sid, imageData)

\* mutant: the result goes to every connected socket
OcrSettled_ToAll(conn, p, ok, text) ==
    IF ok
    THEN << EmitRoom(conn, "ocr-result", p.sid, NoConn, "") >>
    ELSE << EmitRoom(conn, "error", NoSid, NoConn,
                     IF p.kind = "screen-data" THEN "Failed to process OCR"
                     ELSE "Failed to perform OCR") >>

\* mutant: the result is addressed to the sender's id whether or not the
\* socket is still there
OcrSettled_NoDrop(conn, p, ok, text) ==
    IF ok
    THEN << EmitRoom({p.conn}, "ocr-result", p.sid, NoConn, "") >>
    ELSE << EmitRoom({p.conn}, "error", NoSid, NoConn,
                     IF p.kind = "screen-data" THEN "Failed to process OCR"
                     ELSE "Failed to perform OCR") >>

\* what a handler does when its recognition call settles: the ocr-result of
\* lines 74-78 / 111-115, or the catch of lines 86-88 / 118-120
OcrSettled(conn, p, ok, text) ==
    IF ok
    THEN << EmitSelf(conn, p.conn, "ocr-result", p.sid, "", text) >>
    ELSE << EmitSelf(conn, p.conn, "error", NoSid,
                     IF p.kind = "screen-data" THEN "Failed to process OCR"
                     ELSE "Failed to perform OCR", "") >>

\* Tesseract.recognize settles and the handler that awaited it resumes
OcrComplete(p, ok, text) ==
    /\ ~crashed
    /\ BagIn(p, pending)
    /\ ok \/ text = ""
    /\ pending' = pending (-) SetToBag({p})
    /\ effects' = OcrSettled(connected, p, ok, text)
    /\ before' = activeSessions
    /\ lastOp' = [Op("ocr-complete", p.conn, p.sid) EXCEPT
                     !.kind = p.kind, !.outcome = IF ok THEN "ok" ELSE "failed"]
    /\ UNCHANGED <<fresh, connected, activeSessions, rooms, creator, ever, ended, crashed, unmatched, toolVars, hostVars>>

\* Object.keys(activeSessions): the own keys, in insertion order
RECURSIVE ObjectKeys(_)
ObjectKeys(keys) ==
    IF keys = {} THEN << >>
    ELSE LET sid == CHOOSE s \in keys : \A t \in keys : s <= t
         IN << sid >> \o ObjectKeys(keys \ {sid})

\* one id of the sessions array of the response
Listed(sid) == Effect("respond", "sessions", {}, sid, NoConn, "", NoChunk, "")

\* mutant: the ids of every session there has been
SessionsBody_Ever(reg, all) ==
    [i \in 1..Cardinality(all) |-> Listed(ObjectKeys(all)[i])]

\* the body of the response: {sessions: Object.keys(activeSessions)}
SessionsBody(reg, all) ==
    [i \in 1..Cardinality(DOMAIN reg) |-> Listed(ObjectKeys(DOMAIN reg)[i])]

\* app.get('/api/sessions')
ApiSessions ==
    /\ ~crashed
    /\ lastOp.name # "api-sessions"
    /\ effects' = SessionsBody(activeSessions, ever)
    /\ before' = activeSessions
    /\ lastOp' = Op("api-sessions", NoConn, NoSid)
    /\ UNCHANGED <<fresh, connected, activeSessions, rooms, creator, ever, ended, pending, crashed, unmatched, toolVars, hostVars>>

\* the handlers that write the registry
Next ==
    \/ ApiSessions
    \/ \E c \in Conns : Connect(c)
    \/ \E c \in Conns : CreateSession(c)
    \/ \E c \in Conns, sid \in SidInputs : JoinSession(c, sid)
    \/ \E c \in Conns : Disconnect(c)
    \/ \E c \in Conns : DisconnectAgain(c)

Spec == Init /\ [][Next]_vars

\* every handler of the server, the suspended recognition calls included
NextOcr ==
    \/ \E c \in Conns : Connect(c)
    \/ \E c \in Conns : CreateSession(c)
    \/ \E c \in Conns, sid \in SidInputs : JoinSession(c, sid)
    \/ \E c \in Conns, sid \in SidInputs, chunk \in Chunks : ScreenData(c, sid, chunk)
    \/ \E c \in Conns, sid \in SidInputs, img \in ImageInputs : RequestOcr(c, sid, img)
    \/ \E p \in BagToSet(pending), ok \in BOOLEAN, text \in Texts : OcrComplete(p, ok, text)
    \/ \E c \in Conns : Disconnect(c)
    \/ \E c \in Conns : DisconnectAgain(c)

SpecOcr == Init /\ [][NextOcr]_vars

\* the server once connections 1 and 2 are there, 1 has created session 1 and
\* 2 has joined it
Established ==
    /\ fresh = Conns \ {1, 2}
    /\ connected = {1, 2}
    /\ activeSessions = [s \in {1} |-> [host |-> 1, viewers |-> << 2 >>]]
    /\ rooms = [s \in SidInputs |-> IF s = 1 THEN {1, 2} ELSE {}]
    /\ creator = [s \in {1} |-> 1]
    /\ ever = {1}
    /\ ended = {}
    /\ before = [s \in {1} |-> [host |-> 1, viewers |-> << >>]]
    /\ pending = EmptyBag
    /\ effects = << RegistryWrite("push", 1) >> \o JoinEmits({1, 2}, 2, 1, 1)
    /\ lastOp = Op("join-session", 2, 1)
    /\ crashed = FALSE
    /\ unmatched = Tally(NoneUnmatched, effects)
    /\ ToolInit
    /\ HostInit

\* the handlers that run while recognition calls are in flight, one call more
\* than MaxPending so that completions overlap
NextInFlight ==
    \/ \E c \in Conns, sid \in SidInputs, chunk \in Chunks :
          ScreenDataUpTo(MaxPending + 1, c, sid, chunk)
    \/ \E c \in Conns, sid \in SidInputs, img \in ImageInputs :
          RequestOcrUpTo(MaxPending + 1, c, sid, img)
    \/ \E p \in BagToSet(pending), ok \in BOOLEAN, text \in Texts : OcrComplete(p, ok, text)
    \/ \E c \in Conns : Disconnect(c)

SpecInFlight == Established /\ [][NextInFlight]_vars

\* the server while the engine works on a frame of session 1: connection 1
\* has created session 1 and sent a frame for it, connection 2 is connected
OcrInFlight ==
    /\ fresh = Conns \ {1, 2}
    /\ connected = {1, 2}
    /\ activeSessions = [s \in {1} |-> [host |-> 1, viewers |-> << >>]]
    /\ rooms = [s \in SidInputs |-> IF s = 1 THEN {1} ELSE {}]
    /\ creator = [s \in {1} |-> 1]
    /\ ever = {1}
    /\ ended = {}
    /\ before = activeSessions
    /\ pending = SetToBag({[conn |-> 1, sid |-> 1, kind |-> "screen-data", bcast |-> TRUE]})
    /\ effects = ScreenDataBody({1, 2}, {1}, 1, 1, [t |-> "str", s |-> << "A" >>])
    /\ lastOp = Op("screen-data", 1, 1)
    /\ crashed = FALSE
    /\ unmatched = NoneUnmatched
    /\ ToolInit
    /\ HostInit

\* a frame that starts a recognition call and one that starts none
BusyChunks == {[t |-> "str", s |-> << "A" >>], [t |-> "nodata", s |-> << >>]}

\* the handlers that can run while that call is in flight, and its completion
NextBusy ==
    \/ \E c \in Conns : CreateSession(c)
    \/ \E c \in Conns, sid \in SessionIds : JoinSession(c, sid)
    \/ \E c \in Conns, sid \in SessionIds, chunk \in BusyChunks :
          ScreenDataUpTo(MaxPending + 1, c, sid, chunk)
    \/ \E c \in Conns : Disconnect(c)
    \/ \E p \in BagToSet(pending), ok \in BOOLEAN : OcrComplete(p, ok, "")

SpecBusy == OcrInFlight /\ [][NextBusy]_vars

\* ---------------------------------------------------------- tool server
\* mutant: the counter goes up by two
Increment_ByTwo(m, metric) ==
    IF metric \in DOMAIN m THEN [m EXCEPT ![metric] = @ + 2] ELSE m

\* MetricsCollector.increment(metric)
Increment(m, metric) ==
    IF metric \in DOMAIN m THEN [m EXCEPT ![metric] = @ + 1] ELSE m

\* server.registerTool("screen_capture")
ScreenCapture ==
    /\ metrics.requests < MaxCalls
    /\ metricsWas' = metrics
    /\ metrics' = Increment(Increment(metrics, "requests"), "screenCaptures")
    /\ toolOp' = ToolOp("screen_capture")
    /\ reply' = Envelope("screen_capture", TRUE, "", << >>, NoConfidence, NoEntry)
    /\ UNCHANGED <<inflight, payload, normalized, brokerVars>>

\* lines 193-198 of extract_text: the part of the payload that is decoded
ExtractBase64Data(imageData) ==
    IF Includes(imageData, ",")
    THEN LET parts == Split(imageData) IN parts[2]
    ELSE imageData

\* lines 190-205: the data handed to Buffer.from, or the throw of line 201;
\* Buffer.from(base64Data, 'base64') skips what is not base64 and never throws
ExtractTextImage(imageData) ==
    IF ExtractBase64Data(imageData) = << >>
    THEN [t |-> "throw", s |-> << >>]
    ELSE [t |-> "engine", s |-> ExtractBase64Data(imageData)]

\* server.registerTool("extract_text"), up to the await of Tesseract.recognize
ExtractText(imageData) ==
    /\ metrics.requests < MaxCalls
    /\ metricsWas' = metrics
    /\ LET m == Increment(Increment(metrics, "requests"), "ocrRequests")
           img == ExtractTextImage(imageData)
       IN IF img.t = "throw"
          THEN /\ metrics' = Increment(m, "errors")
               /\ reply' = Failure("extract_text",
                                   "Invalid image data format. Expected base64 string or data URL.")
               /\ inflight' = inflight
               /\ toolOp' = [ToolOp("extract_text") EXCEPT !.imageData = imageData]
          ELSE /\ metrics' = m
               /\ reply' = NoReply
               /\ inflight' = inflight + 1
               /\ toolOp' = [ToolOp("extract_text") EXCEPT !.imageData = imageData,
                                                          !.engine = TRUE]
    /\ UNCHANGED <<payload, normalized, brokerVars>>

\* String.prototype.trim()
RECURSIVE Trim(_)
Trim(text) ==
    IF text # << >> /\ Head(text) \in WhiteSpace THEN Trim(Tail(text))
    ELSE IF text # << >> /\ text[Len(text)] \in WhiteSpace
    THEN Trim(SubSeq(text, 1, Len(text) - 1))
    ELSE text

\* mutant: the engine's percentage is passed on as it is
Scale_Raw(confidence) == [num |-> confidence, den |-> 1]

\* result.data.confidence / 100, as a fraction
Scale(confidence) == [num |-> confidence, den |-> Percent]

\* Tesseract.recognize settles and extract_text resumes (lines 213-253)
ExtractTextDone(ok, text, confidence) ==
    /\ inflight > 0
    /\ ok \/ (text = << >> /\ confidence = 0)
    /\ inflight' = inflight - 1
    /\ metricsWas' = metrics
    /\ IF ok
       THEN /\ metrics' = metrics
            /\ reply' = Envelope("extract_text", TRUE, "", Trim(text), Scale(confidence), NoEntry)
       ELSE /\ metrics' = Increment(metrics, "errors")
            /\ reply' = Failure("extract_text", "OCR processing failed")
    /\ toolOp' = [ToolOp("extract_text_done") EXCEPT !.text = text,
                                                     !.confidence = confidence, !.ok = ok]
    /\ UNCHANGED <<payload, normalized, brokerVars>>

\* mutant: the default is used whether or not the argument was supplied
Default_Always(arg, d) == d

\* a destructuring default: ({confidence = 0, ...})
Default(arg, d) == IF arg.set THEN arg.v ELSE d

\* the logEntry of log_activity (lines 274-281)
LogEntry(args) ==
    [description |-> args.description,
     confidence |-> Default(args.confidence, 0),
     screen_text_length |-> Default(args.screen_text_length, 0),
     processing_time |-> Default(args.processing_time, 0)]

\* server.registerTool("log_activity")
LogActivity(args) ==
    /\ metrics.requests < MaxCalls
    /\ metricsWas' = metrics
    /\ metrics' = Increment(Increment(metrics, "requests"), "activityLogs")
    /\ toolOp' = [ToolOp("log_activity") EXCEPT !.args = args]
    /\ reply' = Envelope("log_activity", TRUE, "", << >>, NoConfidence, LogEntry(args))
    /\ UNCHANGED <<inflight, payload, normalized, brokerVars>>

\* the tool handlers, called in any order, with the engine settling when it likes
NextTool ==
    \/ ScreenCapture /\ UNCHANGED hostVars
    \/ \E imageData \in Images : ExtractText(imageData) /\ UNCHANGED hostVars
    \/ \E ok \in BOOLEAN, text \in EngineTexts, confidence \in {0, Percent} :
          ExtractTextDone(ok, text, confidence) /\ UNCHANGED hostVars
    \/ \E args \in LogArgs : LogActivity(args) /\ UNCHANGED hostVars

SpecTool == Init /\ [][NextTool]_vars

\* the tool server while the engine works on the first extract_text call
AwaitingEngine ==
    /\ BrokerInit
    /\ metrics = [requests |-> 1, errors |-> 0, screenCaptures |-> 0,
                  ocrRequests |-> 1, activityLogs |-> 0]
    /\ metricsWas = [requests |-> 0, errors |-> 0, screenCaptures |-> 0,
                     ocrRequests |-> 0, activityLogs |-> 0]
    /\ inflight = 1
    /\ toolOp = [ToolOp("extract_text") EXCEPT !.imageData = << "A" >>, !.engine = TRUE]
    /\ reply = NoReply
    /\ payload = << >>
    /\ normalized = NotNormalized
    /\ HostInit

\* the engine settles with any text and any confidence it can report
NextRecognized ==
    \E ok \in BOOLEAN, text \in EngineTexts, confidence \in EngineConfidences :
        ExtractTextDone(ok, text, confidence) /\ UNCHANGED hostVars

SpecRecognized == AwaitingEngine /\ [][NextRecognized]_vars

\* ------------------------------------------------------- normalization
\* the image an OCR entry point hands to the engine for a payload, or none
EngineInput(eff) ==
    IF \E i \in 1..Len(eff) : eff[i].op = "recognize"
    THEN [t |-> "engine",
          s |-> eff[CHOOSE i \in 1..Len(eff) : eff[i].op = "recognize"].chunk.s]
    ELSE [t |-> "none", s |-> << >>]

EntryPoints == {"screen-data", "request-ocr", "extract_text"}

\* the payload goes through the normalization of one entry point
NormalizeAt(entry, s) ==
    IF entry = "screen-data"
    THEN EngineInput(ScreenDataBody({}, {}, NoConn, NoSid, [t |-> "str", s |-> s]))
    ELSE IF entry = "request-ocr"
    THEN EngineInput(RequestOcrBody({}, NoConn, NoSid, [t |-> "str", s |-> s]))
    ELSE IF ExtractTextImage(s).t = "engine" THEN ExtractTextImage(s)
    ELSE [t |-> "none", s |-> << >>]

Normalize(entry) ==
    /\ normalized' = [at |-> entry, out |-> NormalizeAt(entry, payload)]
    /\ UNCHANGED <<payload, metrics, metricsWas, inflight, toolOp, reply, brokerVars, hostVars>>

InitNorm ==
    /\ BrokerInit
    /\ metrics = [requests |-> 0, errors |-> 0, screenCaptures |-> 0,
                  ocrRequests |-> 0, activityLogs |-> 0]
    /\ metricsWas = metrics
    /\ inflight = 0
    /\ toolOp = ToolOp("init")
    /\ reply = NoReply
    /\ payload \in Images
    /\ normalized = NotNormalized
    /\ HostInit

NextNorm == \E entry \in EntryPoints : Normalize(entry)

SpecNorm == InitNorm /\ [][NextNorm]_vars

\* ------------------------------------------- tool server: process and HTTP

\* how many times the process is signalled
MaxSignals == 2

Signals == {"SIGTERM", "SIGINT"}
Faults == {"UNCAUGHT_EXCEPTION", "UNHANDLED_REJECTION"}

\* config.allowedOrigins, and the origins a request can come from
AllowedOrigins == {"http://localhost:3000"}
Origins == AllowedOrigins \cup {"http://other.example"}

\* startHTTPServer ran setHttpServer (line 461)
HttpServerSet == config.transport = "http"

\* mutant: shutdown() without the isShuttingDown guard
ShutdownCall_Rerun(pr, httpServer, signal) ==
    LET armed == [pr EXCEPT !.isShuttingDown = TRUE, !.signals = @ + 1,
                            !.cause = IF pr.cause = "" THEN signal ELSE pr.cause,
                            !.timers = @ + 1, !.timer = "armed"]
    IN IF httpServer
       THEN [armed EXCEPT !.closeCalls = @ + 1, !.closing = TRUE]
       ELSE [armed EXCEPT !.timer = "cleared", !.exit = 0, !.by = "drain"]

\* mutant: shutdown() that starts no timer
ShutdownCall_NoTimer(pr, httpServer, signal) ==
    IF pr.isShuttingDown
    THEN [pr EXCEPT !.signals = @ + 1, !.exit = 1, !.by = "forced"]
    ELSE LET marked == [pr EXCEPT !.isShuttingDown = TRUE, !.signals = @ + 1,
                                  !.cause = signal]
         IN IF httpServer
            THEN [marked EXCEPT !.closeCalls = @ + 1, !.closing = TRUE]
            ELSE [marked EXCEPT !.exit = 0, !.by = "drain"]

\* GracefulShutdown.shutdown(signal) up to its await: the process record after
\* the call. With no HTTP server nothing is awaited and the call runs to
\* clearTimeout and process.exit(0)
ShutdownCall(pr, httpServer, signal) ==
    IF pr.isShuttingDown
    THEN [pr EXCEPT !.signals = @ + 1, !.exit = 1, !.by = "forced"]
    ELSE LET armed == [pr EXCEPT !.isShuttingDown = TRUE, !.signals = @ + 1,
                                 !.cause = signal,
                                 !.timers = @ + 1, !.timer = "armed"]
         IN IF httpServer
            THEN [armed EXCEPT !.closeCalls = @ + 1, !.closing = TRUE]
            ELSE [armed EXCEPT !.timer = "cleared", !.exit = 0, !.by = "drain"]

\* process.on(signal): SIGTERM, SIGINT, uncaughtException, unhandledRejection
Shutdown(signal) ==
    /\ proc.exit = Running
    /\ proc.signals < MaxSignals
    /\ proc' = ShutdownCall(proc, HttpServerSet, signal)
    /\ UNCHANGED <<config, mcp, http, call, toolVars, brokerVars>>

\* httpServer.listen fails (the port is taken): the server's 'error' event has
\* no listener and becomes an uncaught exception
ListenError ==
    /\ proc.exit = Running
    /\ HttpServerSet
    /\ ~proc.listening
    /\ ~proc.faulted
    /\ proc' = ShutdownCall([proc EXCEPT !.faulted = TRUE], HttpServerSet, "UNCAUGHT_EXCEPTION")
    /\ UNCHANGED <<config, mcp, http, call, toolVars, brokerVars>>

\* a response that has not been written yet keeps its socket open
ResponseOutstanding == http.handler # "none" /\ http.sent = << >>

\* the callback of httpServer.close (lines 328-335) and the rest of shutdown
\* (lines 340-342): err is set when the server was not listening; the promise
\* is resolved either way
CloseCallback ==
    /\ proc.exit = Running
    /\ proc.closing
    /\ ~ResponseOutstanding
    /\ proc' = [proc EXCEPT !.closing = FALSE, !.closeErr = ~proc.listening,
                            !.timer = "cleared", !.exit = 0, !.by = "drain"]
    /\ UNCHANGED <<config, mcp, http, call, toolVars, brokerVars>>

\* the callback of shutdownTimer (lines 319-322)
ShutdownTimer ==
    /\ proc.exit = Running
    /\ proc.timer = "armed"
    /\ proc' = [proc EXCEPT !.timer = "fired", !.exit = 1, !.by = "timeout"]
    /\ UNCHANGED <<config, mcp, http, call, toolVars, brokerVars>>

\* the check StreamableHTTPServerTransport makes of the Origin header with
\* the options of lines 420-426: none unless enableDnsRebindingProtection
OriginPasses(origin) == ~config.enableDnsRebinding \/ origin \in AllowedOrigins

RequestOf(origin, tool) ==
    [NoRequest EXCEPT !.path = "/mcp", !.origin = origin, !.tool = tool, !.at = metrics]

\* app.all('/mcp') up to the return of the tool handler
McpRequest(origin, tool) ==
    /\ proc.exit = Running
    /\ HttpServerSet /\ proc.listening /\ ~proc.closing
    /\ http.handler = "none"
    /\ IF ~OriginPasses(origin)
       THEN /\ http' = [RequestOf(origin, tool) EXCEPT !.sent = << 403 >>,
                                                       !.body = Body(403, NoReply)]
            /\ UNCHANGED <<toolVars, brokerVars>>
       ELSE IF tool = "extract_text"
       THEN /\ ExtractText(<< "A" >>)
            /\ http' = [RequestOf(origin, tool) EXCEPT !.handler = "running",
                                                       !.handlerRan = TRUE]
       ELSE IF tool = "screen_capture"
       THEN /\ ScreenCapture
            /\ http' = [RequestOf(origin, tool) EXCEPT !.handler = "returned",
                                                       !.handlerRan = TRUE]
       ELSE /\ LogActivity([description |-> "test", confidence |-> Unset,
                            screen_text_length |-> Unset, processing_time |-> Unset])
            /\ http' = [RequestOf(origin, tool) EXCEPT !.handler = "returned",
                                                       !.handlerRan = TRUE]
    /\ UNCHANGED <<config, mcp, proc, call>>

\* the request timeout middleware (lines 365-371): the callback of
\* res.setTimeout, which fires while the response is outstanding
RequestTimeout ==
    /\ proc.exit = Running
    /\ http.handler = "running"
    /\ http.sent = << >>
    /\ http' = [http EXCEPT !.sent = << 408 >>, !.body = Body(408, NoReply),
                            !.timedOut = TRUE]
    /\ UNCHANGED <<config, mcp, proc, call, toolVars, brokerVars>>

\* the engine settles and the tool handler of the request returns
McpHandlerReturns(ok) ==
    /\ proc.exit = Running
    /\ http.handler = "running"
    /\ ExtractTextDone(ok, << >>, 0)
    /\ http' = [http EXCEPT !.handler = "returned"]
    /\ UNCHANGED <<config, mcp, proc, call>>

\* res.status(code).json(body): a response whose headers are sent throws
\* ERR_HTTP_HEADERS_SENT
Json(req, code) ==
    IF req.sent = << >>
    THEN [req EXCEPT !.sent = << code >>, !.body = Body(code, NoReply)]
    ELSE [req EXCEPT !.fault = "ERR_HTTP_HEADERS_SENT"]

\* the end of app.all('/mcp'): handleRequest writes the result (written), or
\* it rejects and the catch of lines 430-438 answers 500. A throw in the catch
\* rejects the promise of the async handler: an unhandled rejection when the
\* framework leaves it alone (unhandled), the framework's own error path
\* otherwise
McpRespond(written, unhandled) ==
    /\ proc.exit = Running
    /\ http.handler = "returned"
    /\ UNCHANGED <<config, mcp, call, inflight, reply, payload, normalized, brokerVars>>
    /\ IF written
       THEN /\ http' = [http EXCEPT !.handler = "none",
                                    !.sent = IF @ = << >> THEN << 200 >> ELSE @,
                                    !.body = IF http.sent = << >> THEN Body(200, reply) ELSE @]
            /\ UNCHANGED <<proc, metrics, metricsWas, toolOp>>
       ELSE LET answered == [Json(http, 500) EXCEPT !.handler = "none"]
            IN /\ metricsWas' = metrics
               /\ metrics' = Increment(metrics, "errors")
               /\ toolOp' = ToolOp("mcp_catch")
               /\ http' = answered
               /\ proc' = IF answered.fault # "" /\ unhandled
                          THEN ShutdownCall(proc, HttpServerSet, "UNHANDLED_REJECTION")
                          ELSE proc

\* the server as started by main(): with either transport, the port free or
\* taken, the protection switched on or off
InitHost ==
    /\ BrokerInit
    /\ ToolInit
    /\ config \in {[DefaultConfig EXCEPT !.transport = t, !.enableDnsRebinding = e] :
                        t \in {"stdio", "http"}, e \in BOOLEAN}
    /\ proc \in {[ProcInit EXCEPT !.listening = l] : l \in BOOLEAN}
    /\ proc.listening => HttpServerSet
    /\ http = NoRequest
    /\ call = NoCall
    /\ mcp = NoMcp

NextHost ==
    \/ \E signal \in Signals \cup Faults : Shutdown(signal)
    \/ ListenError
    \/ CloseCallback
    \/ ShutdownTimer
    \/ \E origin \in Origins, tool \in {"extract_text", "log_activity"} : McpRequest(origin, tool)
    \/ RequestTimeout
    \/ \E ok \in BOOLEAN : McpHandlerReturns(ok)
    \/ \E written \in BOOLEAN, unhandled \in BOOLEAN : McpRespond(written, unhandled)

SpecHost == InitHost /\ [][NextHost]_vars

\* a timer that is armed fires unless it is cleared or the process exits; the
\* close callback waits for sockets that may never finish
SpecHostFair == SpecHost /\ WF_vars(ShutdownTimer)

\* ------------------------------------------------- tool server: GET routes

Paths == {"/health", "/health/detailed", "/metrics", "/nope"}

\* a GET answered with a 200 and, where the route puts one in, the snapshot
Answer(req, snapshot) ==
    [req EXCEPT !.sent = << 200 >>, !.body = Body(200, NoReply), !.snapshot = snapshot]

\* the GET routes in the order they are registered (lines 374-415) and the
\* 404 handler behind them (lines 452-458); a route whose flag is off is not
\* registered
Route(cfg, req, m) ==
    IF req.path = "/health" /\ cfg.enableHealthCheck
    THEN Answer(req, IF cfg.enableMetrics THEN << m >> ELSE << >>)
    ELSE IF req.path = "/health/detailed" /\ cfg.enableHealthCheck
    THEN Answer(req, << m >>)
    ELSE IF req.path = "/metrics" /\ cfg.enableMetrics
    THEN Answer(req, << m >>)
    ELSE Json(req, 404)

\* the server takes requests
Serving ==
    /\ proc.exit = Running
    /\ HttpServerSet /\ proc.listening /\ ~proc.closing
    /\ http.handler = "none"

\* GET path
Get(path) ==
    /\ Serving
    /\ http' = Route(config, [NoRequest EXCEPT !.path = path, !.at = metrics], metrics)
    /\ UNCHANGED <<config, mcp, proc, call, toolVars, brokerVars>>

\* POST /mcp with a body express.json() cannot parse: the error handling
\* middleware (lines 442-449)
MalformedBody ==
    /\ Serving
    /\ metrics.errors < MaxCalls
    /\ metricsWas' = metrics
    /\ metrics' = Increment(metrics, "errors")
    /\ toolOp' = ToolOp("express_error")
    /\ http' = Json([NoRequest EXCEPT !.path = "/mcp", !.at = metrics], 500)
    /\ UNCHANGED <<config, mcp, proc, call, inflight, reply, payload, normalized, brokerVars>>

\* the HTTP server listening, with every setting of the two feature flags
InitRoutes ==
    /\ BrokerInit
    /\ ToolInit
    /\ config \in {[DefaultConfig EXCEPT !.transport = "http", !.enableMetrics = m,
                                         !.enableHealthCheck = h] : m, h \in BOOLEAN}
    /\ proc = [ProcInit EXCEPT !.listening = TRUE]
    /\ http = NoRequest
    /\ call = NoCall
    /\ mcp = NoMcp

NextRoutes ==
    \/ \E path \in Paths : Get(path)
    \/ MalformedBody
    \/ \E origin \in AllowedOrigins, tool \in {"extract_text", "log_activity"} : McpRequest(origin, tool)
    \/ RequestTimeout
    \/ \E ok \in BOOLEAN : McpHandlerReturns(ok)
    \/ \E written \in BOOLEAN, unhandled \in BOOLEAN : McpRespond(written, unhandled)

SpecRoutes == InitRoutes /\ [][NextRoutes]_vars

\* ---------------------------------------- tool server: overlapping requests

\* how many HTTP requests overlap
MaxRequests == 3

Requests == 1..MaxRequests

\* a request that has not arrived
NoOverlap == [state |-> "idle", tool |-> "", response |-> "none"]

\* the catch of app.all('/mcp') (lines 430-438) for a request that ran no handler
McpCatch ==
    /\ metricsWas' = metrics
    /\ metrics' = Increment(metrics, "errors")
    /\ toolOp' = ToolOp("mcp_catch")
    /\ UNCHANGED <<inflight, reply, payload, normalized, brokerVars>>

\* app.all('/mcp') for request r (lines 418-429): a transport of its own,
\* server.connect(transport) on the one McpServer of the process, and the
\* tool handler up to its first await. connects: whether connect takes a
\* server that holds a transport already or throws
OverlapRequest(r, tool, connects) ==
    /\ proc.exit = Running
    /\ HttpServerSet /\ proc.listening
    /\ mcp.reqs[r].state = "idle"
    /\ \A q \in Requests : q < r => mcp.reqs[q].state # "idle"
    /\ connects \/ mcp.transport # 0
    /\ IF ~connects
       THEN /\ McpCatch
            /\ mcp' = [mcp EXCEPT !.reqs[r] = [state |-> "done", tool |-> tool, response |-> "500"]]
       ELSE IF tool = "extract_text"
       THEN /\ ExtractText(<< "A" >>)
            /\ mcp' = [transport |-> r,
                       reqs |-> [mcp.reqs EXCEPT ![r] = [state |-> "suspended", tool |-> tool,
                                                        response |-> "none"]]]
       ELSE /\ LogActivity([description |-> "test", confidence |-> Unset,
                            screen_text_length |-> Unset, processing_time |-> Unset])
            /\ mcp' = [transport |-> r,
                       reqs |-> [mcp.reqs EXCEPT ![r] = [state |-> "done", tool |-> tool,
                                                        response |-> "result"]]]
    /\ UNCHANGED <<config, proc, http, call>>

\* whether the result of request r reaches the response of r: the server
\* sends it through the transport it captured when the request came in, or
\* through the one it holds when the handler returns
Sent(r, held, captured) == captured \/ held = r

\* Tesseract settles for request r, the handler returns and the server sends
\* the result
OverlapSettles(r, ok, captured) ==
    /\ proc.exit = Running
    /\ mcp.reqs[r].state = "suspended"
    /\ ExtractTextDone(ok, << >>, 0)
    /\ mcp' = [mcp EXCEPT !.reqs[r].state = "done",
                          !.reqs[r].response = IF Sent(r, mcp.transport, captured)
                                               THEN "result" ELSE "none"]
    /\ UNCHANGED <<config, proc, http, call>>

InitOverlap ==
    /\ BrokerInit
    /\ ToolInit
    /\ config = [DefaultConfig EXCEPT !.transport = "http"]
    /\ proc = [ProcInit EXCEPT !.listening = TRUE]
    /\ http = NoRequest
    /\ call = NoCall
    /\ mcp = [transport |-> 0, reqs |-> [r \in Requests |-> NoOverlap]]

NextOverlap ==
    \/ \E r \in Requests, tool \in {"extract_text", "log_activity"}, connects \in BOOLEAN :
          OverlapRequest(r, tool, connects)
    \/ \E r \in Requests, ok \in BOOLEAN, captured \in BOOLEAN : OverlapSettles(r, ok, captured)

SpecOverlap == InitOverlap /\ [][NextOverlap]_vars

\* ------------------------------------------------ tool server: dispatch

\* a JSON value of the arguments of a tools/call request
Absent == [t |-> "undefined", v |-> 0]
StrOf(s) == [t |-> "string", v |-> s]
Num(n) == [t |-> "number", v |-> n]

\* the arguments a client can send to extract_text and to log_activity
ExtractTextInputs ==
    [imageData : {Absent, Num(1), StrOf(<< "A" >>)}]
LogActivityInputs ==
    [description : {Absent, Num(1), StrOf("test")},
     confidence : {Absent, StrOf("high")} \cup {Num(n) : n \in -1..2},
     screen_text_length : {Absent, StrOf("long"), Num(MaxLen)},
     processing_time : {Absent, StrOf("slow"), Num(1)}]

\* z.string(), z.number(), .min(lo).max(hi), .optional()
ZString(x) == x.t = "string"
ZNumber(x) == x.t = "number"
ZMinMax(x, lo, hi) == ZNumber(x) /\ x.v >= lo /\ x.v <= hi
ZOptional(x, ok) == x.t = "undefined" \/ ok

\* the inputSchema of extract_text, the same in both builds
ExtractTextSchema(raw) == ZString(raw.imageData)

\* the inputSchema of log_activity: the compiled build has no range on
\* confidence
LogActivitySchema(build, raw) ==
    /\ ZString(raw.description)
    /\ ZOptional(raw.confidence,
                 IF build = "src" THEN ZMinMax(raw.confidence, 0, 1)
                                  ELSE ZNumber(raw.confidence))
    /\ ZOptional(raw.screen_text_length, ZNumber(raw.screen_text_length))
    /\ ZOptional(raw.processing_time, ZNumber(raw.processing_time))

\* what the handler receives of an optional argument that passed the schema
Parsed(x) == IF x.t = "undefined" THEN Unset ELSE Supplied(x.v)

ParsedLogArgs(raw) ==
    [description |-> raw.description.v,
     confidence |-> Parsed(raw.confidence),
     screen_text_length |-> Parsed(raw.screen_text_length),
     processing_time |-> Parsed(raw.processing_time)]

\* the compiled build: server.tool("extract_text"), which keeps no metrics
ExtractTextDist(imageData) ==
    /\ inflight < MaxCalls
    /\ metricsWas' = metrics
    /\ metrics' = metrics
    /\ LET img == ExtractTextImage(imageData)
       IN IF img.t = "throw"
          THEN /\ reply' = Failure("extract_text",
                                   "Invalid image data format. Expected base64 string or data URL.")
               /\ inflight' = inflight
               /\ toolOp' = [ToolOp("extract_text") EXCEPT !.imageData = imageData]
          ELSE /\ reply' = NoReply
               /\ inflight' = inflight + 1
               /\ toolOp' = [ToolOp("extract_text") EXCEPT !.imageData = imageData,
                                                          !.engine = TRUE]
    /\ UNCHANGED <<payload, normalized, brokerVars>>

\* the compiled build: server.tool("log_activity")
LogActivityDist(args) ==
    /\ metricsWas' = metrics
    /\ metrics' = metrics
    /\ toolOp' = [ToolOp("log_activity") EXCEPT !.args = args]
    /\ reply' = Envelope("log_activity", TRUE, "", << >>, NoConfidence, LogEntry(args))
    /\ UNCHANGED <<inflight, payload, normalized, brokerVars>>

\* a tools/call request that the schema turned down: the handler is not
\* called and the client gets the validation error
Rejected(tool, raw) ==
    /\ call' = [tool |-> tool, raw |-> raw, dispatched |-> FALSE, at |-> metrics]
    /\ metricsWas' = metrics
    /\ reply' = NoReply
    /\ toolOp' = ToolOp("invalid_params")
    /\ UNCHANGED <<metrics, inflight, payload, normalized, brokerVars>>

\* tools/call of extract_text: the schema, then the handler
CallExtractText(raw) ==
    /\ proc.exit = Running
    /\ IF ExtractTextSchema(raw)
       THEN /\ call' = [tool |-> "extract_text", raw |-> raw, dispatched |-> TRUE, at |-> metrics]
            /\ IF config.build = "src"
               THEN ExtractText(raw.imageData.v)
               ELSE ExtractTextDist(raw.imageData.v)
       ELSE Rejected("extract_text", raw)
    /\ UNCHANGED <<config, mcp, proc, http>>

\* tools/call of log_activity: the schema, then the handler
CallLogActivity(raw) ==
    /\ proc.exit = Running
    /\ IF LogActivitySchema(config.build, raw)
       THEN /\ call' = [tool |-> "log_activity", raw |-> raw, dispatched |-> TRUE, at |-> metrics]
            /\ IF config.build = "src"
               THEN LogActivity(ParsedLogArgs(raw))
               ELSE LogActivityDist(ParsedLogArgs(raw))
       ELSE Rejected("log_activity", raw)
    /\ UNCHANGED <<config, mcp, proc, http>>

\* the engine settles a call of either build
EngineSettles(ok) ==
    /\ inflight > 0
    /\ inflight' = inflight - 1
    /\ metricsWas' = metrics
    /\ metrics' = IF ok \/ config.build = "dist" THEN metrics
                  ELSE Increment(metrics, "errors")
    /\ reply' = IF ok
                THEN Envelope("extract_text", TRUE, "", << >>, Scale(0), NoEntry)
                ELSE Failure("extract_text", "OCR processing failed")
    /\ toolOp' = [ToolOp("extract_text_done") EXCEPT !.ok = ok]
    /\ UNCHANGED <<payload, normalized, brokerVars, hostVars>>

\* either build, serving the stdio transport
InitDispatch ==
    /\ BrokerInit
    /\ ToolInit
    /\ config \in {[DefaultConfig EXCEPT !.build = b] : b \in {"src", "dist"}}
    /\ proc = ProcInit
    /\ http = NoRequest
    /\ call = NoCall
    /\ mcp = NoMcp

NextDispatch ==
    \/ \E raw \in ExtractTextInputs : CallExtractText(raw)
    \/ \E raw \in LogActivityInputs : CallLogActivity(raw)
    \/ \E ok \in BOOLEAN : EngineSettles(ok)

SpecDispatch == InitDispatch /\ [][NextDispatch]_vars

\* -------------------------------------------- tool server: the two bindings

\* the arguments of the invocations made on both bindings
InvocationArgs(tool) ==
    IF tool = "extract_text"
    THEN [imageData |-> StrOf(<< "A" >>)]
    ELSE [description |-> StrOf("test"), confidence |-> Absent,
          screen_text_length |-> Absent, processing_time |-> Absent]

\* one tools/call, on the binding main() started (lines 483-490): the stdio
\* transport hands it to the server, the HTTP one goes through app.all('/mcp')
Invoke(origin, tool) ==
    /\ inflight = 0
    /\ http.handler = "none"
    /\ IF config.transport = "stdio"
       THEN IF tool = "extract_text"
            THEN CallExtractText(InvocationArgs(tool))
            ELSE IF tool = "log_activity"
            THEN CallLogActivity(InvocationArgs(tool))
            ELSE /\ proc.exit = Running
                 /\ ScreenCapture
                 /\ call' = [tool |-> tool, raw |-> << >>, dispatched |-> TRUE, at |-> metrics]
                 /\ UNCHANGED <<config, mcp, proc, http>>
       ELSE McpRequest(origin, tool)

\* the engine settles a call that came over stdio
StdioSettles(ok) ==
    /\ config.transport = "stdio"
    /\ EngineSettles(ok)

\* the server as main() starts it, with either transport
InitBindings ==
    /\ BrokerInit
    /\ ToolInit
    /\ config \in {[DefaultConfig EXCEPT !.transport = t, !.enableDnsRebinding = e] :
                        t \in {"stdio", "http"}, e \in BOOLEAN}
    /\ proc = [ProcInit EXCEPT !.listening = HttpServerSet]
    /\ http = NoRequest
    /\ call = NoCall
    /\ mcp = NoMcp

NextBindings ==
    \/ \E origin \in AllowedOrigins, tool \in {"screen_capture", "extract_text", "log_activity"} :
          Invoke(origin, tool)
    \/ \E ok \in BOOLEAN : StdioSettles(ok)
    \/ \E ok \in BOOLEAN : McpHandlerReturns(ok)
    \/ RequestTimeout
    \/ \E written \in BOOLEAN, unhandled \in BOOLEAN : McpRespond(written, unhandled)

SpecBindings == InitBindings /\ [][NextBindings]_vars

\* ------------------------------------------------------------ claims
Range(seq) == {seq[i] : i \in 1..Len(seq)}

\* the emits of the last handler that carry event ev
EmitsOf(ev) == {i \in 1..Len(effects) : effects[i].op = "emit" /\ effects[i].ev = ev}

\* how many session-ended events for session sid connection v received
EndedCount(sid, v) ==
    Cardinality({i \in EmitsOf("session-ended") : effects[i].sid = sid /\ v \in effects[i].to})

\* the last handler was the disconnect of a socket that was connected
Disconnected == lastOp.name = "disconnect" /\ ~lastOp.rerun

-----------------------------------------------------------------------------
\* C1: a session's viewer collection holds a connection id at most once, however
\* often that connection joined the session.
C1_JoinIdempotent ==
    \A sid \in DOMAIN activeSessions :
        LET v == activeSessions[sid].viewers
        IN \A i, j \in 1..Len(v) : v[i] = v[j] => i = j

-----------------------------------------------------------------------------
-----------------------------------------------------------------------------
\* C3: on host disconnect session-ended is emitted while the entry is still in
\* the registry and the entry is removed right after it: no removal comes first
\* and no entry leaves the registry without the notification.
C3_NotifyBeforeRemoval ==
    /\ \A j \in 1..Len(effects) :
          effects[j].op = "delete" =>
              /\ j > 1
              /\ effects[j - 1].op = "emit"
              /\ effects[j - 1].ev = "session-ended"
              /\ effects[j - 1].sid = effects[j].sid
    /\ \A i \in EmitsOf("session-ended") :
          /\ effects[i].sid \in DOMAIN before
          /\ \A k \in 1..(i - 1) :
                ~(effects[k].op = "delete" /\ effects[k].sid = effects[i].sid)
          /\ i < Len(effects)
          /\ effects[i + 1].op = "delete"
          /\ effects[i + 1].sid = effects[i].sid
    /\ \A sid \in DOMAIN before \ DOMAIN activeSessions :
          \E j \in 1..Len(effects) : effects[j].op = "delete" /\ effects[j].sid = sid

C3_Witness ==
    /\ Disconnected
    /\ \E i \in EmitsOf("session-ended") : effects[i].to # {}
    /\ DOMAIN before \ DOMAIN activeSessions # {}

-----------------------------------------------------------------------------
\* C4: the disconnect handler run a second time for the same connection id
\* leaves the registry as it was, raises nothing and emits nothing.
C4_DisconnectIdempotent ==
    (lastOp.name = "disconnect" /\ lastOp.rerun) =>
        /\ activeSessions = before
        /\ effects = << >>
        /\ ~crashed

\* the second run for connection 1, which hosted session 1 with connection 2
\* in its room: only its host's disconnect ends a session
C4_Witness ==
    /\ lastOp.name = "disconnect" /\ lastOp.rerun /\ lastOp.conn = 1
    /\ 1 \in ended
    /\ 2 \in connected /\ 2 \in rooms[1]

-----------------------------------------------------------------------------
\* C5: every session in the registry has one host, the connection that created
\* it; no handler changes or clears it.
C5_HostIsCreator ==
    /\ DOMAIN creator = DOMAIN activeSessions
    /\ \A sid \in DOMAIN activeSessions :
          /\ activeSessions[sid].host \in Conns
          /\ activeSessions[sid].host = creator[sid]

\* a connection other than the host has just joined a session
C5_Witness ==
    /\ lastOp.name = "join-session"
    /\ lastOp.sid \in DOMAIN activeSessions
    /\ activeSessions[lastOp.sid].host # lastOp.conn
    /\ Includes(activeSessions[lastOp.sid].viewers, lastOp.conn)

-----------------------------------------------------------------------------
\* C6: join-session for a session id with no registry entry fails with a
\* 'Session not found' error to the caller alone: nothing is created, no viewer
\* set changes, the caller joins no room and no viewer-joined is emitted.
C6_UnknownSessionRejected ==
    (lastOp.name = "join-session" /\ lastOp.sid \notin DOMAIN before) =>
        /\ effects = << EmitSelf({lastOp.conn}, lastOp.conn, "error", NoSid,
                                 "Session not found", "") >>
        /\ activeSessions = before
        /\ lastOp.conn \notin rooms[lastOp.sid]
        /\ ~crashed

-----------------------------------------------------------------------------
\* C7: create-session by X makes X receive session-created{S} with X the host
\* of S; join-session{S} by Y makes Y receive session-joined{S} and X, and no
\* other connection, receive viewer-joined carrying Y.
C7_ScenarioA ==
    /\ lastOp.name = "create-session" =>
          /\ lastOp.sid \in DOMAIN activeSessions
          /\ activeSessions[lastOp.sid].host = lastOp.conn
          /\ \E i \in EmitsOf("session-created") :
                effects[i].to = {lastOp.conn} /\ effects[i].sid = lastOp.sid
          /\ Cardinality(EmitsOf("session-created")) = 1
    /\ (lastOp.name = "join-session" /\ lastOp.sid \in DOMAIN before) =>
          /\ \E i \in EmitsOf("session-joined") :
                effects[i].to = {lastOp.conn} /\ effects[i].sid = lastOp.sid
          /\ Cardinality(EmitsOf("session-joined")) = 1
          /\ \E i \in EmitsOf("viewer-joined") :
                /\ effects[i].to = {before[lastOp.sid].host}
                /\ effects[i].viewer = lastOp.conn
          /\ Cardinality(EmitsOf("viewer-joined")) = 1

\* Y joined the session X created, a third party being none of the receivers
C7_Witness ==
    /\ lastOp.name = "join-session"
    /\ lastOp.sid \in DOMAIN before
    /\ before[lastOp.sid].host # lastOp.conn
    /\ \E i \in EmitsOf("viewer-joined") : effects[i].to = {before[lastOp.sid].host}

-----------------------------------------------------------------------------
\* C8: create-session never fails and allocates an id that is not and never
\* was in the registry; the new session has no viewers and the sessions that
\* existed are unchanged.
C8_CreateFresh ==
    /\ DOMAIN activeSessions \cap ended = {}
    /\ lastOp.name = "create-session" =>
          /\ ~crashed
          /\ lastOp.sid \notin DOMAIN before
          /\ lastOp.sid \notin ended
          /\ DOMAIN activeSessions = DOMAIN before \cup {lastOp.sid}
          /\ activeSessions[lastOp.sid].viewers = << >>
          /\ \A s \in DOMAIN before : activeSessions[s] = before[s]
          /\ EmitsOf("session-created") # {}
          /\ EmitsOf("error") = {}

\* a session is created while another one with a viewer exists
C8_Witness ==
    /\ lastOp.name = "create-session"
    /\ \E s \in DOMAIN before : before[s].viewers # << >>

-----------------------------------------------------------------------------
\* the last handler was screen-data for a session id the lookup accepted
FrameAccepted == lastOp.name = "screen-data" /\ Lookup(before, lastOp.sid) # "undefined"

\* C9: for every screen-data frame accepted for a session, the raw chunk is
\* emitted to the other subscribers before the frame's OCR call is started, and
\* so before it completes and before any ocr-result or error for the frame.
C9_BroadcastBeforeOcr ==
    /\ FrameAccepted =>
          /\ Len(effects) >= 1
          /\ effects[1].op = "emit" /\ effects[1].ev = "screen-data"
          /\ effects[1].sid = lastOp.sid
          /\ effects[1].to = rooms[lastOp.sid] \ {lastOp.conn}
          /\ \A j \in 2..Len(effects) :
                \/ effects[j].op = "recognize"
                \/ effects[j].op = "emit" /\ effects[j].ev = "error"
    /\ \A p \in BagToSet(pending) : p.kind = "screen-data" => p.bcast

\* the frame went to a viewer and its recognition call is in flight
C9_Witness ==
    /\ FrameAccepted
    /\ lastOp.sid \in DOMAIN activeSessions
    /\ effects[1].to # {}
    /\ Len(effects) = 2 /\ effects[2].op = "recognize"
    /\ \E p \in BagToSet(pending) : p.kind = "screen-data" /\ p.sid = lastOp.sid

-----------------------------------------------------------------------------
\* C10: when the OCR step of a screen-data frame fails (engine error, or an
\* invalid or empty image payload), the viewers still receive the frame, the
\* sender receives an error event and the session stays as it was.
C10_FrameSurvivesOcrFailure ==
    /\ (FrameAccepted /\ lastOp.sid \in DOMAIN before
        /\ \A j \in 1..Len(effects) : effects[j].op # "recognize") =>
          /\ \E i \in EmitsOf("screen-data") :
                effects[i].to = rooms[lastOp.sid] \ {lastOp.conn}
          /\ \E i \in EmitsOf("error") : effects[i].to = {lastOp.conn}
          /\ activeSessions = before
    /\ (lastOp.name = "ocr-complete" /\ lastOp.kind = "screen-data"
        /\ lastOp.outcome = "failed" /\ lastOp.conn \in connected) =>
          /\ \E i \in EmitsOf("error") : effects[i].to = {lastOp.conn}
          /\ activeSessions = before

-----------------------------------------------------------------------------
\* the emits of the last handler that report an OCR result or an OCR error
OcrErrors == {"Invalid image data", "Failed to process OCR", "Failed to perform OCR"}
OcrReplies ==
    EmitsOf("ocr-result") \cup {i \in EmitsOf("error") : effects[i].msg \in OcrErrors}

\* the last handler was the screen-data or request-ocr handler, or its
\* continuation after the recognition call
OcrPath == lastOp.name \in {"screen-data", "request-ocr", "ocr-complete"}

\* C11 (as stated): every ocr-result and every OCR error produced for a
\* screen-data or request-ocr message goes to the connection that sent the
\* message and to nobody else, and carries the session id of that message,
\* however the completions of concurrent recognition calls interleave.
C11_RepliesToSenderWithSession ==
    OcrPath =>
        \A i \in OcrReplies :
            /\ effects[i].to \subseteq {lastOp.conn}
            /\ effects[i].sid = lastOp.sid

\* C11 (amended): every ocr-result and every OCR error goes to the connection
\* that sent the message and to nobody else; an ocr-result carries the session
\* id of that message, an OCR error carries a message text and no session id.
C11_RepliesToSender ==
    OcrPath =>
        /\ \A i \in OcrReplies : effects[i].to \subseteq {lastOp.conn}
        /\ \A i \in EmitsOf("ocr-result") : effects[i].sid = lastOp.sid
        /\ \A i \in OcrReplies \ EmitsOf("ocr-result") : effects[i].sid = NoSid

\* a result is delivered to its sender while the session has another
\* subscriber and a call of another connection is still in flight
C11_Witness ==
    /\ lastOp.name = "ocr-complete"
    /\ lastOp.outcome = "ok"
    /\ \E i \in EmitsOf("ocr-result") : effects[i].to = {lastOp.conn}
    /\ lastOp.sid \in DOMAIN activeSessions
    /\ rooms[lastOp.sid] \ {lastOp.conn} # {}
    /\ \E q \in BagToSet(pending) : q.conn # lastOp.conn

-----------------------------------------------------------------------------
\* C12: a screen-data message naming session S that comes from a connection
\* other than the host of S is not broadcast to anybody.
C12_HostSoleProducer ==
    (/\ lastOp.name = "screen-data"
     /\ lastOp.sid \in DOMAIN before
     /\ before[lastOp.sid].host # lastOp.conn) =>
        \A i \in EmitsOf("screen-data") : effects[i].to = {}

-----------------------------------------------------------------------------
\* how many viewer-left events for session sid and viewer v connection h received
LeftCount(sid, v, h) ==
    Cardinality({i \in EmitsOf("viewer-left") :
                    effects[i].sid = sid /\ effects[i].viewer = v /\ h \in effects[i].to})

-----------------------------------------------------------------------------
\* C14: when a recognition call settles after its session has ended, the
\* process is still up, the registry is as the completion found it, the
\* session has not come back, and the reply goes to the sender alone, or to
\* nobody when the sender is gone.
C14_LateCompletion ==
    (lastOp.name = "ocr-complete" /\ lastOp.sid \in ended) =>
        /\ ~crashed
        /\ activeSessions = before
        /\ lastOp.sid \notin DOMAIN activeSessions
        /\ \A i \in 1..Len(effects) :
              /\ effects[i].op = "emit"
              /\ effects[i].ev \in {"ocr-result", "error"}
              /\ effects[i].to = {lastOp.conn} \cap connected

\* the call of a host's own frame settles after the host has gone
C14_Witness ==
    /\ lastOp.name = "ocr-complete"
    /\ lastOp.kind = "screen-data"
    /\ lastOp.sid \in ended
    /\ lastOp.conn \notin connected
    /\ Len(effects) = 1
    /\ effects[1].to = {}

-----------------------------------------------------------------------------
\* C15: screen-data, request-ocr and the completion of their recognition
\* calls leave the registry as they found it: the same sessions, each with the
\* same host and the same viewers.
C15_RegistryUntouched ==
    OcrPath => activeSessions = before

\* a request-ocr the handler turns down, for a session that has a viewer
C15_Witness ==
    /\ lastOp.name = "request-ocr"
    /\ lastOp.sid \in DOMAIN before
    /\ before[lastOp.sid].viewers # << >>
    /\ \E i \in EmitsOf("error") : effects[i].msg = "Invalid image data"

-----------------------------------------------------------------------------
\* what follows the first comma of a payload; the payload itself when it has none
AfterFirstComma(s) ==
    IF \A i \in 1..Len(s) : s[i] # ","
    THEN s
    ELSE LET i == CHOOSE k \in 1..Len(s) : s[k] = "," /\ \A j \in 1..(k - 1) : s[j] # ","
         IN SubSeq(s, i + 1, Len(s))

\* C16: at every OCR entry point (screen-data, request-ocr, extract_text) a
\* payload without a comma goes to the engine whole, and of a payload with a
\* comma everything after the first comma goes to the engine; nothing goes to
\* the engine when that part is empty.
C16_SameNormalization ==
    normalized.at \in EntryPoints =>
        normalized.out = IF AfterFirstComma(payload) # << >>
                         THEN [t |-> "engine", s |-> AfterFirstComma(payload)]
                         ELSE [t |-> "none", s |-> << >>]

-----------------------------------------------------------------------------
Base64Chars == {"A"}

\* an image input with nothing to decode or with a character that is not base64
Malformed(s) ==
    \/ AfterFirstComma(s) = << >>
    \/ \E i \in 1..Len(AfterFirstComma(s)) : AfterFirstComma(s)[i] \notin Base64Chars

\* C17: extract_text on an empty or malformed image input returns a failure
\* envelope and does not call the recognition engine.
C17_MalformedRejected ==
    (toolOp.name = "extract_text" /\ Malformed(toolOp.imageData)) =>
        /\ reply.tool = "extract_text"
        /\ ~reply.success
        /\ ~toolOp.engine

-----------------------------------------------------------------------------
\* C18: a successful extract_text returns the engine's confidence divided by
\* 100, a value between 0 and 1, and the engine's text without the white
\* space at its two ends.
C18_ScaledAndTrimmed ==
    (toolOp.name = "extract_text_done" /\ toolOp.ok) =>
        /\ reply.success
        /\ reply.confidence.den > 0
        /\ reply.confidence.num * 100 = toolOp.confidence * reply.confidence.den
        /\ 0 <= reply.confidence.num
        /\ reply.confidence.num <= reply.confidence.den
        /\ reply.text # << >> =>
              /\ Head(reply.text) \notin WhiteSpace
              /\ reply.text[Len(reply.text)] \notin WhiteSpace
        /\ \E a, b \in 0..Len(toolOp.text) :
              /\ a + Len(reply.text) + b = Len(toolOp.text)
              /\ SubSeq(toolOp.text, a + 1, a + Len(reply.text)) = reply.text
              /\ \A k \in 1..a : toolOp.text[k] \in WhiteSpace
              /\ \A k \in (Len(toolOp.text) - b + 1)..Len(toolOp.text) :
                    toolOp.text[k] \in WhiteSpace

\* the engine is fully confident of a text with white space at both ends
C18_Witness ==
    /\ toolOp.name = "extract_text_done"
    /\ toolOp.ok
    /\ toolOp.confidence = Percent
    /\ Len(toolOp.text) > 2
    /\ Head(toolOp.text) \in WhiteSpace
    /\ toolOp.text[Len(toolOp.text)] \in WhiteSpace
    /\ reply.text # << >>
    /\ reply.confidence.num = reply.confidence.den

-----------------------------------------------------------------------------
Tools == {"screen_capture", "extract_text", "log_activity"}
KindCounters == {"screenCaptures", "ocrRequests", "activityLogs"}
KindOf(tool) ==
    CASE tool = "screen_capture" -> "screenCaptures"
      [] tool = "extract_text" -> "ocrRequests"
      [] tool = "log_activity" -> "activityLogs"

\* C19: no counter ever goes down; an invocation of a tool adds one to requests
\* and one to the counter of its kind and leaves the counters of the other
\* kinds alone; nothing else counts as a request.
C19_CountersStep ==
    /\ \A k \in DOMAIN metrics : metrics[k] >= metricsWas[k]
    /\ toolOp.name \in Tools =>
          /\ metrics.requests = metricsWas.requests + 1
          /\ metrics[KindOf(toolOp.name)] = metricsWas[KindOf(toolOp.name)] + 1
          /\ \A k \in KindCounters \ {KindOf(toolOp.name)} : metrics[k] = metricsWas[k]
    /\ toolOp.name \notin Tools =>
          \A k \in KindCounters \cup {"requests"} : metrics[k] = metricsWas[k]
    /\ metrics.requests = metrics.screenCaptures + metrics.ocrRequests + metrics.activityLogs

\* log_activity is invoked after an extract_text that failed
C19_Witness ==
    /\ toolOp.name = "log_activity"
    /\ metricsWas.ocrRequests = 1
    /\ metricsWas.errors = 1
    /\ metrics.activityLogs = 1
    /\ metrics.requests = 2

-----------------------------------------------------------------------------
NumericFields == {"confidence", "screen_text_length", "processing_time"}

\* C20: log_activity answers with success true and an entry in which each of
\* confidence, screen_text_length and processing_time is the value the caller
\* supplied, or 0 when the caller left it out.
C20_DefaultsAndEcho ==
    toolOp.name = "log_activity" =>
        /\ reply.tool = "log_activity"
        /\ reply.success
        /\ reply.entry.description = toolOp.args.description
        /\ \A f \in NumericFields :
              reply.entry[f] = IF toolOp.args[f].set THEN toolOp.args[f].v ELSE 0

\* log_activity with a description alone, and with one field supplied besides
C20_Witness ==
    /\ toolOp.name = "log_activity"
    /\ ~toolOp.args.confidence.set
    /\ ~toolOp.args.processing_time.set
    /\ toolOp.args.screen_text_length = Supplied(MaxLen)
    /\ reply.entry = [description |-> "test", confidence |-> 0,
                      screen_text_length |-> MaxLen, processing_time |-> 0]

-----------------------------------------------------------------------------
\* C28: when a connection that hosts several sessions disconnects, every
\* session it hosts leaves the registry in that one handling and every
\* subscriber of each of them receives session-ended for it exactly once.
C28_AllHostedSessionsEnded ==
    Disconnected =>
        /\ \A sid \in DOMAIN activeSessions : activeSessions[sid].host # lastOp.conn
        /\ \A sid \in DOMAIN before :
              before[sid].host = lastOp.conn =>
                  /\ sid \in ended
                  /\ \A v \in rooms[sid] : EndedCount(sid, v) = 1

\* the host of two sessions, one of them with a subscriber, disconnects
C28_Witness ==
    /\ Disconnected
    /\ Cardinality({sid \in DOMAIN before : before[sid].host = lastOp.conn}) > 1
    /\ \E sid \in DOMAIN before : before[sid].host = lastOp.conn /\ rooms[sid] # {}

-----------------------------------------------------------------------------
\* C29: screen-data or request-ocr naming a session id that has no registry
\* entry does one thing only: it sends 'Session not found' to the sender.
C29_UnknownSessionOnlyError ==
    (lastOp.name \in {"screen-data", "request-ocr"} /\ lastOp.sid \notin DOMAIN before) =>
        /\ Len(effects) = 1
        /\ effects[1].op = "emit"
        /\ effects[1].ev = "error"
        /\ effects[1].msg = "Session not found"
        /\ effects[1].to = {lastOp.conn}

-----------------------------------------------------------------------------
\* the recognition calls in flight for a session other than sid
InFlightElsewhere(sid) == {p \in BagToSet(pending) : p.sid # sid}

\* C30: while a recognition call for one session is in flight, create-session,
\* join-session, screen-data and disconnect concerning another session are
\* taken up at once, and what they emit is delivered in that same handling,
\* with the call still in flight.
C30_OthersNotBlocked ==
    /\ (~crashed /\ pending # EmptyBag /\ BagCardinality(pending) <= MaxPending) =>
          /\ \A c \in connected :
                /\ SessionIds \ ever # {} => ENABLED CreateSession(c)
                /\ ENABLED Disconnect(c)
          /\ \A c \in connected, sid \in DOMAIN activeSessions :
                InFlightElsewhere(sid) # {} =>
                    /\ ViewerEntries(activeSessions) < MaxViewers => ENABLED JoinSession(c, sid)
                    /\ \A chunk \in Chunks : ENABLED ScreenDataUpTo(MaxPending + 1, c, sid, chunk)
    /\ (lastOp.name = "create-session" /\ InFlightElsewhere(lastOp.sid) # {}) =>
          \E i \in EmitsOf("session-created") :
              effects[i].sid = lastOp.sid /\ effects[i].to = {lastOp.conn}
    /\ (/\ lastOp.name = "join-session"
        /\ lastOp.sid \in DOMAIN before
        /\ InFlightElsewhere(lastOp.sid) # {}) =>
          /\ \E i \in EmitsOf("session-joined") : effects[i].to = {lastOp.conn}
          /\ \E i \in EmitsOf("viewer-joined") : effects[i].to = {before[lastOp.sid].host}
    /\ (/\ lastOp.name = "screen-data"
        /\ lastOp.sid \in DOMAIN before
        /\ InFlightElsewhere(lastOp.sid) # {}) =>
          /\ effects # << >>
          /\ effects[1].op = "emit"
          /\ effects[1].ev = "screen-data"
          /\ effects[1].to = rooms[lastOp.sid] \ {lastOp.conn}
    /\ (Disconnected /\ pending # EmptyBag) =>
          \A sid \in DOMAIN before :
              (before[sid].host = lastOp.conn /\ InFlightElsewhere(sid) # {}) =>
                  \A v \in rooms[sid] : EndedCount(sid, v) = 1

\* a frame of a second session reaches its viewer while the call for the
\* first session is still in flight
C30_Witness ==
    /\ lastOp.name = "screen-data"
    /\ lastOp.sid \in DOMAIN before
    /\ \E p \in BagToSet(pending) : p.sid # lastOp.sid /\ p.conn # lastOp.conn
    /\ effects # << >>
    /\ effects[1].ev = "screen-data"
    /\ effects[1].to # {}

-----------------------------------------------------------------------------
\* C21: every response the server sends carries a success flag and a
\* timestamp, and an error string exactly when it reports a failure; here for
\* the replies of the duplex transport: the error events are failures, the
\* session-created, session-joined and ocr-result events are successes.
C21_UniformEnvelope ==
    \A i \in 1..Len(effects) :
        (effects[i].op = "emit" /\
         effects[i].ev \in {"error", "session-created", "session-joined", "ocr-result"}) =>
            /\ {"success", "timestamp"} \subseteq EventFields(effects[i].ev)
            /\ "error" \in EventFields(effects[i].ev) <=> effects[i].ev = "error"

-----------------------------------------------------------------------------
\* C23: the shutdown drain runs at most once: one timer is started and the
\* HTTP server is closed once, and a shutdown call that finds the process
\* draining exits at once with status 1.
C23_DrainRunsOnce ==
    /\ proc.timers <= 1
    /\ proc.closeCalls <= 1
    /\ proc.isShuttingDown => proc.signals >= 1
    /\ proc.signals >= 2 => (proc.exit = 1 /\ proc.by = "forced")

\* a second signal arrived while the HTTP server was closing
C23_Witness ==
    /\ proc.signals = 2
    /\ proc.closing
    /\ proc.closeCalls = 1
    /\ proc.timers = 1
    /\ proc.exit = 1

\* C24: the process exits with status 0 only after a clean drain, that is
\* a close without error before the timeout in a shutdown that a termination
\* signal started; it exits with status 1 when the timer expires, when the
\* close fails and when an uncaught fault started the shutdown.
C24_ExitStatus ==
    proc.exit # Running =>
        (proc.exit = 0 <=> (proc.by = "drain" /\ ~proc.closeErr /\ proc.cause \in Signals))

\* C25: once shutdown has started the process exits, by the close callback
\* or by the timer, whatever the sockets do; with the stdio transport it
\* has exited as soon as shutdown has started.
C25_ShutdownExits ==
    /\ [](config.transport = "stdio" /\ proc.isShuttingDown => proc.exit # Running)
    /\ (proc.isShuttingDown ~> proc.exit # Running)

\* the timer ended a shutdown whose close callback never came, with a
\* response still outstanding
C25_Witness ==
    /\ proc.exit = 1
    /\ proc.by = "timeout"
    /\ proc.closing
    /\ ResponseOutstanding

\* C26: a request answered by the timeout guard gets no second response,
\* and what its handler does afterwards raises no error.
C26_TimedOutRequestDiscarded ==
    http.timedOut => (http.sent = << 408 >> /\ http.fault = "")

\* C27: a request from an origin outside the allow-list runs no tool
\* handler.
C27_ForeignOriginRejected ==
    http.origin \in Origins \ AllowedOrigins => ~http.handlerRan

\* the input of the last call is one the schema of its tool is meant to
\* turn down: imageData or description missing or not a string, an optional
\* field that is not a number, a confidence outside [0, 1]
FailsSchema ==
    \/ call.tool = "extract_text" /\ call.raw.imageData.t # "string"
    \/ /\ call.tool = "log_activity"
       /\ \/ call.raw.description.t # "string"
          \/ \E f \in {"confidence", "screen_text_length", "processing_time"} :
                call.raw[f].t = "string"
          \/ call.raw.confidence.t = "number" /\
                (call.raw.confidence.v < 0 \/ call.raw.confidence.v > 1)

\* C22: a tool call whose input fails the schema of the tool is turned
\* down before dispatch: the handler does not run, the engine is not called
\* and no log entry is produced.
C22_MalformedInputRejected ==
    FailsSchema =>
        /\ ~call.dispatched
        /\ toolOp.name \notin {"extract_text", "log_activity"}
        /\ toolOp.name = "invalid_params" =>
              /\ ~toolOp.engine
              /\ reply.entry = NoEntry
              /\ metrics = metricsWas
-----------------------------------------------------------------------------
\* the session ids of the last response of GET /api/sessions
ListedIds == {effects[i].sid : i \in {j \in 1..Len(effects) : effects[j].op = "respond"}}

\* the last handler was GET /api/sessions
Listing == lastOp.name = "api-sessions"

\* C33: GET /api/sessions returns exactly the ids of the sessions in the
\* registry, each once: every session created and not ended by the disconnect
\* of its host is listed, and no session ended that way is.
C33_ListsLiveSessions ==
    Listing =>
        /\ ListedIds = DOMAIN activeSessions
        /\ Len(effects) = Cardinality(ListedIds)
        /\ ever \ ended \subseteq ListedIds
        /\ ListedIds \cap ended = {}
        /\ \A sid \in ListedIds : activeSessions[sid].host \in connected

\* a listing made after one session ended and while another is open
C33_Witness ==
    /\ Listing
    /\ ended # {}
    /\ ListedIds # {}

\* C34: every connection id the registry names, as a host or in a viewers
\* array, is the id of a connected socket.
C34_RegistryNamesConnected ==
    \A sid \in DOMAIN activeSessions :
        /\ activeSessions[sid].host \in connected
        /\ Range(activeSessions[sid].viewers) \subseteq connected

\* a socket that was a viewer of one session and the host of another has
\* disconnected, and a session is left
C34_Witness ==
    /\ Disconnected
    /\ \E sid \in DOMAIN before : before[sid].host = lastOp.conn
    /\ \E sid \in DOMAIN before : lastOp.conn \in Range(before[sid].viewers)
    /\ activeSessions # << >>

\* C35: the host of a session is not in the viewers of that session, and
\* no viewer-joined about the host is delivered to the host.
C35_HostNotViewer ==
    /\ \A sid \in DOMAIN activeSessions :
          activeSessions[sid].host \notin Range(activeSessions[sid].viewers)
    /\ \A i \in EmitsOf("viewer-joined") : effects[i].viewer \notin effects[i].to

\* C36: join-session{S} changes the viewers of S and nothing else; a
\* disconnect removes the sessions the socket hosts, takes the socket out of
\* the viewers of the others and leaves their hosts, and sessions the socket
\* is not in, as they were.
C36_OtherSessionsUntouched ==
    /\ lastOp.name = "join-session" =>
          /\ DOMAIN activeSessions = DOMAIN before
          /\ \A s \in DOMAIN before :
                /\ activeSessions[s].host = before[s].host
                /\ s # lastOp.sid => activeSessions[s] = before[s]
    /\ lastOp.name = "disconnect" =>
          /\ DOMAIN activeSessions = {s \in DOMAIN before : before[s].host # lastOp.conn}
          /\ \A s \in DOMAIN activeSessions :
                /\ activeSessions[s].host = before[s].host
                /\ Range(activeSessions[s].viewers) = Range(before[s].viewers) \ {lastOp.conn}
                /\ lastOp.conn \notin Range(before[s].viewers) =>
                      activeSessions[s] = before[s]

\* a viewer of one session disconnected while a second session, with a
\* viewer of its own, was open
C36_Witness ==
    /\ Disconnected
    /\ \E s, t \in DOMAIN activeSessions :
          /\ s # t
          /\ lastOp.conn \in Range(before[s].viewers)
          /\ before[t].viewers # << >>
          /\ activeSessions[t] = before[t]

\* C37: for every session and viewer the host's notifications alternate:
\* at most one viewer-joined is not yet followed by a viewer-left, and no
\* viewer-left comes without a viewer-joined before it.
C37_JoinLeaveAlternate ==
    \A sid \in SessionIds, v \in Conns : unmatched[sid][v] \in {0, 1}

-----------------------------------------------------------------------------
\* C32: GET /metrics is answered with the metrics snapshot whatever the
\* enableMetrics flag is; GET /health, when it is answered, carries the
\* snapshot exactly when the flag is on.
C32_MetricsUnconditional ==
    /\ http.path = "/metrics" => (http.sent = << 200 >> /\ Len(http.snapshot) = 1)
    /\ (http.path = "/health" /\ http.sent = << 200 >>) =>
          (Len(http.snapshot) = 1 <=> config.enableMetrics)

\* C38: requests is the sum of screenCaptures, ocrRequests and
\* activityLogs, and errors is never more than requests.
C38_CountersConsistent ==
    /\ metrics.requests = metrics.screenCaptures + metrics.ocrRequests + metrics.activityLogs
    /\ metrics.errors <= metrics.requests

-----------------------------------------------------------------------------
\* C39: when HTTP tool requests overlap, every request that has been dealt
\* with has the result of its own handler in its response: connecting the
\* shared server for a later request neither drops nor fails an earlier one,
\* nor the later one itself.
C39_OverlapKeepsResponses ==
    \A r \in Requests : mcp.reqs[r].state = "done" => mcp.reqs[r].response = "result"

-----------------------------------------------------------------------------
\* what one run of the handler of a tool adds to the counters
HandlerCounts(tool, success) ==
    [requests |-> 1,
     errors |-> IF success THEN 0 ELSE 1,
     screenCaptures |-> IF tool = "screen_capture" THEN 1 ELSE 0,
     ocrRequests |-> IF tool = "extract_text" THEN 1 ELSE 0,
     activityLogs |-> IF tool = "log_activity" THEN 1 ELSE 0]

\* how far the counters have moved since at
MovedSince(at) == [k \in DOMAIN metrics |-> metrics[k] - at[k]]

\* an invocation over stdio has returned to its caller, which gets the
\* return value of the handler
StdioReturned ==
    /\ config.transport = "stdio"
    /\ call.dispatched
    /\ inflight = 0
    /\ toolOp.name \in {"screen_capture", "log_activity", "extract_text_done"}

\* an invocation over HTTP has been answered
HttpAnswered ==
    /\ config.transport = "http"
    /\ http.path = "/mcp"
    /\ http.sent # << >>

\* C31 (as stated): the same invocation gives its caller the envelope of
\* the handler, and moves the counters by the increments of the handler, on
\* either binding.
C31_SameOnBothBindings ==
    /\ StdioReturned => MovedSince(call.at) = HandlerCounts(call.tool, reply.success)
    /\ HttpAnswered =>
          /\ http.body.status = 200
          /\ http.handler = "none" =>
                /\ http.body.envelope = reply
                /\ MovedSince(http.at) = HandlerCounts(http.tool, reply.success)

\* C31 (amended): an invocation over HTTP that is answered with status 200
\* carries the envelope of the handler and has moved the counters by the
\* increments of the handler, as the same invocation over stdio does.
C31_SameWhenAnswered ==
    /\ StdioReturned => MovedSince(call.at) = HandlerCounts(call.tool, reply.success)
    /\ (HttpAnswered /\ http.body.status = 200 /\ http.handler = "none") =>
          /\ http.body.envelope = reply
          /\ http.body.envelope.tool = http.tool
          /\ MovedSince(http.at) = HandlerCounts(http.tool, reply.success)

\* an extract_text call over HTTP was answered with the envelope of a
\* recognition that failed
C31_Witness ==
    /\ HttpAnswered
    /\ http.handler = "none"
    /\ http.body.status = 200
    /\ http.tool = "extract_text"
    /\ ~http.body.envelope.success
    /\ metrics.errors = http.at.errors + 1

=============================================================================
